---- MODULE Spec2Model ----
(***************************************************************************)
(* Emoji Fusion: the game session of GameBoard.tsx (the power-up version,  *)
(* lines 1-1465 of the file) with the helpers of utils/powerUps.ts,        *)
(* utils/deadlock.ts and the saved-game flags of utils/storage.ts.         *)
(*                                                                         *)
(* One action models one handler of the component, run to completion on    *)
(* the values of the render it was created in (React state closures):      *)
(* reads use the unprimed variables, functional updates are applied in the *)
(* order the handler queues them, and the auto-save effect that follows    *)
(* the re-render is part of the action.                                    *)
(***************************************************************************)
EXTENDS Integers, Sequences, FiniteSets, TLC

VARIABLES
    grid,                    \* useState grid: grid[row][col], a tile or null
    nextId,                  \* useState nextId
    score,                   \* useState score
    isGameOver,              \* useState isGameOver
    previousState,           \* useState previousState: <<>> (null) or <<snapshot>>
    undoHistory,             \* useState undoHistory: sequence of snapshots
    canUndo,                 \* useState canUndo (baseline undo flag)
    isUndoingRef,            \* useRef isUndoingRef.current
    generatedPowerUpLevels,  \* useRef generatedPowerUpLevels.current
    highestTileReached,      \* useState highestTileReached
    powerUpState,            \* useState powerUpState
    scoreHasBeenSaved,       \* useState scoreHasBeenSaved
    localPendingScore,       \* useState localPendingScore: <<>> (null) or <<n>>
    isCheckingScore,         \* useState isCheckingScore
    isSavingScore,           \* useState isSavingScore: an addScoreToLeaderboard promise in flight
    maxDiscoveredRank,       \* localStorage item 'emoji-fusion-max-discovered-rank'
    pendingCheck,            \* the isTopScore promise in flight: <<>> or <<scoreToCheck>>
    savedGame,               \* localStorage saved game: its gameFinalized and canUndoAfterGameOver flags
    powerUpSeq,              \* source of unique power-up ids (Date.now()/Math.random())
    moves,                   \* number of successful moves made (bounds the exploration)
    undoPowerUpsGenerated,   \* number of Undo power-ups granted so far (observer)
    grantedLevels,           \* the highest level at each grant so far, in order (observer)
    slowMoMoves,             \* successful moves since the last SlowMo activation, -1 when
                             \* there was none or an undo came after it (observer)
    last                     \* what the last handler did (observer)

vars == <<grid, nextId, score, isGameOver, previousState, undoHistory, canUndo,
          isUndoingRef, generatedPowerUpLevels, highestTileReached, powerUpState,
          scoreHasBeenSaved, localPendingScore, isCheckingScore, isSavingScore,
          maxDiscoveredRank, pendingCheck, savedGame, powerUpSeq, moves,
          undoPowerUpsGenerated, grantedLevels, slowMoMoves, last>>

-----------------------------------------------------------------------------
(* Bounds of the exploration *)

MaxMoves == 2        \* successful moves per session
MaxSpawnCells == 1   \* a spawn picks among the first MaxSpawnCells empty cells
MaxSlowMoMoves == 6  \* successful moves followed after a SlowMo activation
MaxInventoryMoves == 1  \* successful moves of a session that starts with a full inventory
MaxFreezeMoves == 4  \* successful moves followed after a Freeze was applied
MaxRank == 12        \* highest rank offered to updateMaxDiscoveredRank on its own

(* Program constants *)

JOKER_LEVEL == -1
MaxPowerUps == 4
FreezeTurns == 3
SlowMoTurns == 5
MinStates == 2
LeaderboardSize == 100

Cells == 0..3
Directions == {"left", "right", "up", "down"}
PowerUpTypes == {"freeze", "swap", "delete", "undo", "slowmo"}

Max(a, b) == IF a > b THEN a ELSE b
Min(a, b) == IF a < b THEN a ELSE b

RECURSIVE Pow2(_)
Pow2(n) == IF n <= 0 THEN 1 ELSE 2 * Pow2(n - 1)

-----------------------------------------------------------------------------
(* Tiles and grids *)

\* The null of an empty cell.
NoTile == [id |-> 0, level |-> 0, isJoker |-> FALSE, merged |-> FALSE, row |-> -1, col |-> -1]

IsTile(t) == t.id # 0

Tile(id, level, row, col) ==
    [id |-> id, level |-> level, isJoker |-> (level = JOKER_LEVEL), merged |-> FALSE,
     row |-> row, col |-> col]

\* [...row]
CopyRow(row) == (0 :> row[0]) @@ (1 :> row[1]) @@ (2 :> row[2]) @@ (3 :> row[3])

\* grid.map(row => [...row])
CopyGrid(g) ==
    (0 :> CopyRow(g[0])) @@ (1 :> CopyRow(g[1])) @@ (2 :> CopyRow(g[2])) @@ (3 :> CopyRow(g[3]))

EmptyGrid == CopyGrid([r \in Cells |-> [c \in Cells |-> NoTile]])

\* All cells in row-major order, as the nested for loops visit them.
CellSeq == [k \in 1..16 |-> <<(k - 1) \div 4, (k - 1) % 4>>]

RECURSIVE EmptyFrom(_, _)
EmptyFrom(g, k) ==
    IF k > 16 THEN <<>>
    ELSE LET cell == CellSeq[k]
         IN  IF IsTile(g[cell[1]][cell[2]]) THEN EmptyFrom(g, k + 1)
             ELSE <<cell>> \o EmptyFrom(g, k + 1)

getEmptyCells(g) == EmptyFrom(g, 1)

TilesOf(g) == {g[r][c] : r \in Cells, c \in Cells} \ {NoTile}

TileCount(g) == Cardinality({<<r, c>> \in Cells \X Cells : IsTile(g[r][c])})

RECURSIVE HighestFrom(_, _, _)
HighestFrom(g, k, highest) ==
    IF k > 16 THEN highest
    ELSE LET t == g[CellSeq[k][1]][CellSeq[k][2]]
         IN  HighestFrom(g, k + 1, IF IsTile(t) /\ t.level > highest THEN t.level ELSE highest)

getHighestTileLevel(g) == HighestFrom(g, 1, 1)

\* handleMove starts by clearing the per-move flags on the tile objects of the
\* current grid (the row copies share them).
ClearFlags(g) ==
    CopyGrid([r \in Cells |-> [c \in Cells |->
        IF IsTile(g[r][c]) THEN [g[r][c] EXCEPT !.merged = FALSE] ELSE NoTile]])

-----------------------------------------------------------------------------
(* utils/powerUps.ts *)

NoFrozen == [i \in {} |-> 0]

isTileFrozen(tileId, frozenTiles) ==
    tileId \in DOMAIN frozenTiles /\ frozenTiles[tileId] > 0

\* A countdown that keeps the entries that reached 0 (fault model).
updateFrozenTilesKeepsExpired(frozenTiles) ==
    [i \in DOMAIN frozenTiles |-> IF frozenTiles[i] > 1 THEN frozenTiles[i] - 1 ELSE 0]

updateFrozenTiles(frozenTiles) ==
    [i \in {j \in DOMAIN frozenTiles : frozenTiles[j] > 1} |-> frozenTiles[i] - 1]

freezeTile(frozenTiles, tileId, turns) ==
    LET currentTurns == IF tileId \in DOMAIN frozenTiles THEN frozenTiles[tileId] ELSE 0
    IN  [i \in DOMAIN frozenTiles \cup {tileId} |->
            IF i = tileId THEN currentTurns + turns ELSE frozenTiles[i]]

\* Removing the first slot, whichever power-up it holds (fault model).
removePowerUpFirst(powerUps, powerUpId) ==
    IF powerUps = <<>> THEN <<>> ELSE Tail(powerUps)

RECURSIVE removePowerUp(_, _)
removePowerUp(powerUps, powerUpId) ==
    IF powerUps = <<>> THEN <<>>
    ELSE IF Head(powerUps).id = powerUpId THEN removePowerUp(Tail(powerUps), powerUpId)
    ELSE <<Head(powerUps)>> \o removePowerUp(Tail(powerUps), powerUpId)

\* A generation test that does not look at the free slots (fault model).
shouldGeneratePowerUpAnySlots(currentPowerUps, previousHighestLevel, currentHighestLevel) ==
    currentHighestLevel > previousHighestLevel

shouldGeneratePowerUp(currentPowerUps, previousHighestLevel, currentHighestLevel) ==
    LET newLevelReached == currentHighestLevel > previousHighestLevel
        hasSlotAvailable == Len(currentPowerUps) < MaxPowerUps
    IN  newLevelReached /\ hasSlotAvailable

NoSelection == [type |-> "none", required |-> 0, picked |-> <<>>, powerUpId |-> 0]

initializePowerUpState ==
    [powerUps |-> <<>>, frozenTiles |-> NoFrozen, slowMotionTurns |-> 0, extraUndos |-> 0,
     spawnedUndos |-> 0, selectingPowerUp |-> NoSelection, inputLocked |-> FALSE]

-----------------------------------------------------------------------------
(* Move resolution: the slide/merge pass of handleMove *)

\* canMerge without the rule against two Jokers (fault model).
canMergeJokerPair(tile1, tile2, frozenTiles) ==
    IF tile1.merged \/ tile2.merged THEN FALSE
    ELSE IF isTileFrozen(tile1.id, frozenTiles) \/ isTileFrozen(tile2.id, frozenTiles) THEN FALSE
    ELSE IF tile1.isJoker \/ tile2.isJoker THEN TRUE
    ELSE tile1.level = tile2.level

\* canMerge that tests the freeze count of tile2 only (fault model).
canMergeFrozen(tile1, tile2, frozenTiles) ==
    IF tile1.merged \/ tile2.merged THEN FALSE
    ELSE IF isTileFrozen(tile2.id, frozenTiles) THEN FALSE
    ELSE IF tile1.isJoker /\ ~tile2.isJoker THEN TRUE
    ELSE IF tile2.isJoker /\ ~tile1.isJoker THEN TRUE
    ELSE IF tile1.isJoker /\ tile2.isJoker THEN FALSE
    ELSE tile1.level = tile2.level

\* canMerge without the test of the merged flags (fault model).
canMergeAgain(tile1, tile2, frozenTiles) ==
    IF isTileFrozen(tile1.id, frozenTiles) \/ isTileFrozen(tile2.id, frozenTiles) THEN FALSE
    ELSE IF tile1.isJoker /\ ~tile2.isJoker THEN TRUE
    ELSE IF tile2.isJoker /\ ~tile1.isJoker THEN TRUE
    ELSE IF tile1.isJoker /\ tile2.isJoker THEN FALSE
    ELSE tile1.level = tile2.level

\* canMerge of GameBoard.tsx (deadlock.ts holds a copy of it).
canMerge(tile1, tile2, frozenTiles) ==
    IF tile1.merged \/ tile2.merged THEN FALSE
    ELSE IF isTileFrozen(tile1.id, frozenTiles) \/ isTileFrozen(tile2.id, frozenTiles) THEN FALSE
    ELSE IF tile1.isJoker /\ ~tile2.isJoker THEN TRUE
    ELSE IF tile2.isJoker /\ ~tile1.isJoker THEN TRUE
    ELSE IF tile1.isJoker /\ tile2.isJoker THEN FALSE
    ELSE tile1.level = tile2.level

getMergeResult(targetTile, movingTile) ==
    IF targetTile.isJoker /\ ~movingTile.isJoker
        THEN [level |-> movingTile.level + 1, isJoker |-> FALSE]
    ELSE IF movingTile.isJoker /\ ~targetTile.isJoker
        THEN [level |-> targetTile.level + 1, isJoker |-> FALSE]
    ELSE [level |-> targetTile.level + 1, isJoker |-> FALSE]

\* 2 * level in place of Math.pow(2, level) (fault model).
mergeScoreDouble(level) == 2 * level

\* Math.pow(2, mergeResult.level)
mergeScore(level) == Pow2(level)

\* One step towards the leading edge.
DRow(direction) == IF direction = "up" THEN -1 ELSE IF direction = "down" THEN 1 ELSE 0
DCol(direction) == IF direction = "left" THEN -1 ELSE IF direction = "right" THEN 1 ELSE 0

\* The order in which the two nested for loops of a direction visit the cells:
\* line by line, from the cell next to the leading edge to the trailing edge.
ScanCell(direction, k) ==
    LET a == (k - 1) \div 3
        b == (k - 1) % 3
    IN  CASE direction = "left"  -> <<a, b + 1>>
          [] direction = "right" -> <<a, 2 - b>>
          [] direction = "up"    -> <<b + 1, a>>
          [] direction = "down"  -> <<2 - b, a>>

\* A slide that copies the tile without its new coordinate (fault model).
ShiftedKeepsCell(tile, direction, row, col) == tile

\* { ...tile, col: newCol -+ 1 } or { ...tile, row: newRow -+ 1 }
Shifted(tile, direction, row, col) ==
    IF direction \in {"left", "right"} THEN [tile EXCEPT !.col = col]
    ELSE [tile EXCEPT !.row = row]

\* The while loop of one tile: slide over empty cells, merge once, or stop.
RECURSIVE SlideTile(_, _, _, _, _)
SlideTile(acc, row, col, direction, frozenTiles) ==
    LET nr == row + DRow(direction)
        nc == col + DCol(direction)
    IN  IF nr \notin Cells \/ nc \notin Cells THEN acc
        ELSE LET target == acc.grid[nr][nc]
                 moving == acc.grid[row][col]
             IN  IF ~IsTile(target) THEN
                     SlideTile([acc EXCEPT
                                   !.grid = [acc.grid EXCEPT
                                                ![nr][nc] = Shifted(moving, direction, nr, nc),
                                                ![row][col] = NoTile],
                                   !.moved = TRUE],
                               nr, nc, direction, frozenTiles)
                 ELSE IF canMerge(target, moving, frozenTiles) THEN
                     LET mergeResult == getMergeResult(target, moving)
                     IN  [acc EXCEPT
                            !.grid = [acc.grid EXCEPT
                                         ![nr][nc] = [target EXCEPT
                                                         !.level = mergeResult.level,
                                                         !.isJoker = mergeResult.isJoker,
                                                         !.merged = TRUE],
                                         ![row][col] = NoTile],
                            !.score = acc.score + mergeScore(mergeResult.level),
                            !.events = Append(acc.events,
                                          [level |-> mergeResult.level,
                                           isJoker |-> mergeResult.isJoker,
                                           row |-> nr, col |-> nc,
                                           scoreDelta |-> mergeScore(mergeResult.level),
                                           target |-> target, moving |-> moving]),
                            !.moved = TRUE,
                            !.merged = TRUE]
                 ELSE acc

RECURSIVE ScanFrom(_, _, _, _)
ScanFrom(acc, k, direction, frozenTiles) ==
    IF k > 12 THEN acc
    ELSE LET cell == ScanCell(direction, k)
             tile == acc.grid[cell[1]][cell[2]]
         IN  IF IsTile(tile) /\ ~isTileFrozen(tile.id, frozenTiles)
             THEN ScanFrom(SlideTile(acc, cell[1], cell[2], direction, frozenTiles),
                           k + 1, direction, frozenTiles)
             ELSE ScanFrom(acc, k + 1, direction, frozenTiles)

\* newGrid, moved, merged, the points queued by setScore and the merges made.
ResolveMove(g, direction, frozenTiles) ==
    ScanFrom([grid |-> ClearFlags(g), moved |-> FALSE, merged |-> FALSE,
              score |-> 0, events |-> <<>>],
             1, direction, frozenTiles)

-----------------------------------------------------------------------------
(* Game over check of the component, and the utility of utils/deadlock.ts *)

\* GameBoard.canMove: an empty cell, or a right or down neighbour that canMerge accepts.
canMove(g, frozenTiles) ==
    \/ Len(getEmptyCells(g)) > 0
    \/ \E row \in Cells, col \in Cells :
          /\ IsTile(g[row][col])
          /\ \/ col < 3 /\ IsTile(g[row][col + 1])
                        /\ canMerge(g[row][col], g[row][col + 1], frozenTiles)
             \/ row < 3 /\ IsTile(g[row + 1][col])
                        /\ canMerge(g[row][col], g[row + 1][col], frozenTiles)

checkGameOver(g, frozenTiles) == ~canMove(g, frozenTiles)

\* deadlock.ts canMakeAnyMove: all four neighbours, its own copy of canMerge.
canMakeAnyMove(g, frozenTiles) ==
    \/ \E row \in Cells, col \in Cells : ~IsTile(g[row][col])
    \/ \E row \in Cells, col \in Cells :
          /\ IsTile(g[row][col])
          /\ \/ col < 3 /\ IsTile(g[row][col + 1])
                        /\ canMerge(g[row][col], g[row][col + 1], frozenTiles)
             \/ row < 3 /\ IsTile(g[row + 1][col])
                        /\ canMerge(g[row][col], g[row + 1][col], frozenTiles)
             \/ col > 0 /\ IsTile(g[row][col - 1])
                        /\ canMerge(g[row][col], g[row][col - 1], frozenTiles)
             \/ row > 0 /\ IsTile(g[row - 1][col])
                        /\ canMerge(g[row][col], g[row - 1][col], frozenTiles)

\* deadlock.ts wouldFreezingCauseDeadlock: no move with the tile frozen for 3 turns, and
\* slow motion running or the board full.
wouldFreezingCauseDeadlock(g, tileId, currentFrozenTiles, slowMotionTurns) ==
    LET simulatedFrozenTiles == [i \in DOMAIN currentFrozenTiles \cup {tileId} |->
                                    IF i = tileId THEN FreezeTurns ELSE currentFrozenTiles[i]]
        movesWouldBePossible == canMakeAnyMove(g, simulatedFrozenTiles)
        hasEmptyCells == \E row \in Cells, col \in Cells : ~IsTile(g[row][col])
    IN  IF movesWouldBePossible THEN FALSE
        ELSE IF slowMotionTurns > 0 THEN TRUE
        ELSE IF ~hasEmptyCells THEN TRUE
        ELSE FALSE

\* powerUps.ts canSafelyFreezeTile
canSafelyFreezeTile(g, tileId, frozenTiles, slowMotionTurns) ==
    ~wouldFreezingCauseDeadlock(g, tileId, frozenTiles, slowMotionTurns)

-----------------------------------------------------------------------------
(* Max discovered rank: the localStorage item and the functions of utils/storage *)

\* A localStorage item: absent (getItem returns null) or a text, kept as its characters.
NoItem == [present |-> FALSE, text |-> <<>>]
Item(text) == [present |-> TRUE, text |-> text]

DigitChars == <<"0", "1", "2", "3", "4", "5", "6", "7", "8", "9">>
IsDigit(ch) == \E i \in 1..10 : DigitChars[i] = ch
DigitValue(ch) == (CHOOSE i \in 1..10 : DigitChars[i] = ch) - 1

\* A JavaScript number as the functions see it: NaN or an integer.
NaN == [nan |-> TRUE, value |-> 0]
Number(n) == [nan |-> FALSE, value |-> n]

\* rank.toString() for an integer >= 0: its decimal digits.
RECURSIVE toString(_)
toString(n) ==
    IF n < 10 THEN <<DigitChars[n + 1]>>
    ELSE Append(toString(n \div 10), DigitChars[(n % 10) + 1])

\* The value of the longest run of digits at the start of the text, and its length.
RECURSIVE LeadingDigits(_, _)
LeadingDigits(text, acc) ==
    IF text = <<>> \/ ~IsDigit(Head(text)) THEN acc
    ELSE LeadingDigits(Tail(text), [value |-> 10 * acc.value + DigitValue(Head(text)),
                                    length |-> acc.length + 1])

\* parseInt(stored, 10): an optional sign, then the leading digits; NaN without a digit.
parseInt(text) ==
    LET signed == text # <<>> /\ Head(text) \in {"-", "+"}
        digits == LeadingDigits(IF signed THEN Tail(text) ELSE text,
                                [value |-> 0, length |-> 0])
    IN  IF digits.length = 0 THEN NaN
        ELSE IF signed /\ Head(text) = "-" THEN Number(0 - digits.value)
        ELSE Number(digits.value)

\* saveMaxDiscoveredRank: the item after the call.
saveMaxDiscoveredRank(item, rank) ==
    IF rank.nan \/ rank.value < 1 THEN item
    ELSE Item(toString(rank.value))

\* loadMaxDiscoveredRank: the value returned, and the item after the call (a stored
\* value that does not parse to an integer >= 1 is replaced by 1).
loadMaxDiscoveredRank(item) ==
    IF ~item.present \/ item.text = <<>> THEN [returned |-> 1, item |-> item]
    ELSE LET parsed == parseInt(item.text)
         IN  IF parsed.nan \/ parsed.value < 1
             THEN [returned |-> 1, item |-> saveMaxDiscoveredRank(item, Number(1))]
             ELSE [returned |-> parsed.value, item |-> item]

\* An update that stores every valid candidate (fault model).
updateMaxDiscoveredRankAlways(item, candidateRank) ==
    IF candidateRank.nan \/ candidateRank.value < 1 THEN item
    ELSE saveMaxDiscoveredRank(loadMaxDiscoveredRank(item).item, candidateRank)

\* updateMaxDiscoveredRank: the item after the call.
updateMaxDiscoveredRank(item, candidateRank) ==
    IF candidateRank.nan \/ candidateRank.value < 1 THEN item
    ELSE LET currentMax == loadMaxDiscoveredRank(item)
         IN  IF candidateRank.value > currentMax.returned
             THEN saveMaxDiscoveredRank(currentMax.item, candidateRank)
             ELSE currentMax.item

\* The item after handleMove has reported the levels of the merges from the k-th on.
RECURSIVE RanksDiscovered(_, _, _)
RanksDiscovered(item, events, k) ==
    IF k > Len(events) THEN item
    ELSE RanksDiscovered(updateMaxDiscoveredRank(item, Number(events[k].level)), events, k + 1)

-----------------------------------------------------------------------------
(* Saved games a session can be resumed from, and the fresh game *)

\* A grid from its levels (0: empty cell, JOKER_LEVEL: a Joker); ids in row-major order.
GridOf(levels) ==
    CopyGrid([r \in Cells |-> [c \in Cells |->
        IF levels[r + 1][c + 1] = 0 THEN NoTile
        ELSE Tile(Cardinality({k \in 1..(4 * r + c + 1) :
                                  levels[((k - 1) \div 4) + 1][((k - 1) % 4) + 1] # 0}),
                  levels[r + 1][c + 1], r, c)]])

RECURSIVE PowerUpsOf(_, _)
PowerUpsOf(types, firstId) ==
    IF types = <<>> THEN <<>>
    ELSE <<[id |-> firstId, type |-> Head(types)]>> \o PowerUpsOf(Tail(types), firstId + 1)

J == JOKER_LEVEL

SavedGames == <<
    \* a full board whose only merge is in the top row
    [levels |-> << <<1, 1, 3, 4>>, <<2, 5, 6, 7>>, <<5, 6, 7, 8>>, <<6, 7, 8, 9>> >>,
     frozen |-> NoFrozen, powerUps |-> <<>>, slowMotionTurns |-> 0, extraUndos |-> 0, score |-> 900],
    \* the same board with the bottom right tile frozen and an extra-undo credit
    [levels |-> << <<1, 1, 3, 4>>, <<2, 5, 6, 7>>, <<5, 6, 7, 8>>, <<6, 7, 8, 9>> >>,
     frozen |-> [i \in {16} |-> 2], powerUps |-> <<>>, slowMotionTurns |-> 0, extraUndos |-> 1, score |-> 900],
    \* Jokers and a frozen tile in the lines
    [levels |-> << <<J, 2, 2, 2>>, <<0, 0, 0, 9>>, <<J, J, 0, 1>>, <<0, 0, 0, 0>> >>,
     frozen |-> [i \in {3} |-> 2], powerUps |-> <<>>, slowMotionTurns |-> 0, extraUndos |-> 0, score |-> 1000],
    \* an Undo and a SlowMo power-up held, a frozen tile
    [levels |-> << <<0, 0, 0, 0>>, <<0, 1, 1, 0>>, <<0, 0, 0, 0>>, <<0, 0, 0, 9>> >>,
     frozen |-> [i \in {3} |-> 2], powerUps |-> <<"undo", "slowmo">>, slowMotionTurns |-> 0, extraUndos |-> 0, score |-> 1000],
    \* a Freeze and a Delete power-up held, slow motion running
    [levels |-> << <<0, 0, 0, 0>>, <<0, 2, 2, 0>>, <<0, 0, 0, 0>>, <<0, 0, 0, 9>> >>,
     frozen |-> NoFrozen, powerUps |-> <<"freeze", "delete">>, slowMotionTurns |-> 2, extraUndos |-> 0, score |-> 1000],
    \* a Swap power-up held
    [levels |-> << <<1, 0, 0, 0>>, <<0, 0, 0, 0>>, <<0, 0, 9, 0>>, <<0, 0, 0, 0>> >>,
     frozen |-> NoFrozen, powerUps |-> <<"swap">>, slowMotionTurns |-> 0, extraUndos |-> 0, score |-> 1000],
    \* the full board with a Freeze power-up held
    [levels |-> << <<1, 1, 3, 4>>, <<2, 5, 6, 7>>, <<5, 6, 7, 8>>, <<6, 7, 8, 9>> >>,
     frozen |-> NoFrozen, powerUps |-> <<"freeze">>, slowMotionTurns |-> 0, extraUndos |-> 0, score |-> 900]
>>

Start == [op |-> "start"]

\* validatePowerUpState on a saved power-up state: the first 4 power-ups, counters
\* not below 0.
validatePowerUpState(state) ==
    [state EXCEPT !.powerUps = SubSeq(@, 1, Min(MaxPowerUps, Len(@))),
                  !.slowMotionTurns = Max(0, @),
                  !.extraUndos = Max(0, @),
                  !.spawnedUndos = Max(0, @)]

\* initializeGameState with shouldLoadSavedGame: the saved grid, score and power-up state;
\* the undo history and the generated-levels set start empty.
LoadSavedGame(saved) ==
    /\ grid = GridOf(saved.levels)
    /\ nextId = TileCount(GridOf(saved.levels)) + 1
    /\ score = saved.score
    /\ highestTileReached = getHighestTileLevel(GridOf(saved.levels))
    /\ powerUpState = validatePowerUpState(
                          [initializePowerUpState EXCEPT
                              !.powerUps = PowerUpsOf(saved.powerUps, 1),
                              !.frozenTiles = saved.frozen,
                              !.slowMotionTurns = saved.slowMotionTurns,
                              !.extraUndos = saved.extraUndos])
    /\ powerUpSeq = Len(saved.powerUps) + 1

SpawnKinds == {1, 2, JOKER_LEVEL}

\* initializeGrid: tiles 1 and 2 in two random empty cells of the empty grid.
initializeGrid(firstIndex, firstLevel, secondIndex, secondLevel) ==
    LET emptyCells == getEmptyCells(EmptyGrid)
        firstCell == emptyCells[firstIndex]
        g1 == [EmptyGrid EXCEPT ![firstCell[1]][firstCell[2]] =
                                    Tile(1, firstLevel, firstCell[1], firstCell[2])]
        secondCell == getEmptyCells(g1)[secondIndex]
    IN  [g1 EXCEPT ![secondCell[1]][secondCell[2]] =
                       Tile(2, secondLevel, secondCell[1], secondCell[2])]

NewGame ==
    \E firstIndex \in 1..MaxSpawnCells, secondIndex \in 1..MaxSpawnCells,
       firstLevel \in SpawnKinds, secondLevel \in SpawnKinds :
        /\ grid = initializeGrid(firstIndex, firstLevel, secondIndex, secondLevel)
        /\ nextId = 3
        /\ score = 0
        /\ highestTileReached =
               getHighestTileLevel(initializeGrid(firstIndex, firstLevel, secondIndex, secondLevel))
        /\ powerUpState = initializePowerUpState
        /\ powerUpSeq = 1

Init ==
    /\ NewGame \/ \E i \in 1..Len(SavedGames) : LoadSavedGame(SavedGames[i])
    /\ isGameOver = FALSE
    /\ previousState = <<>>
    /\ undoHistory = <<>>
    /\ canUndo = FALSE
    /\ isUndoingRef = FALSE
    /\ generatedPowerUpLevels = {}
    /\ scoreHasBeenSaved = FALSE
    /\ localPendingScore = <<>>
    /\ isCheckingScore = FALSE
    /\ isSavingScore = FALSE
    /\ maxDiscoveredRank = NoItem
    /\ pendingCheck = <<>>
    /\ savedGame = [gameFinalized |-> FALSE, canUndoAfterGameOver |-> FALSE]
    /\ moves = 0
    /\ undoPowerUpsGenerated = 0
    /\ grantedLevels = <<>>
    /\ slowMoMoves = -1
    /\ last = Start

\* The auto-save effect: when grid, score, nextId or powerUpState changed and the game is
\* not over, saveGameState overwrites the saved game, without the two storage flags.
AutoSave(flags, changed, gameOverNow) ==
    IF changed /\ ~gameOverNow
    THEN [gameFinalized |-> FALSE, canUndoAfterGameOver |-> FALSE]
    ELSE flags

-----------------------------------------------------------------------------
(* handleMove *)

\* A slow-motion counter that loses two turns per move (fault model).
decrementSlowMotionByTwo(slowMotionTurns) == Max(0, slowMotionTurns - 2)

\* Math.max(0, prev.slowMotionTurns - 1) after each successful move.
decrementSlowMotion(slowMotionTurns) == Max(0, slowMotionTurns - 1)

\* A spawn that hands out the id before nextId once more (fault model).
spawnRandomTileReusesId(g, index, level, id) ==
    LET emptyCells == getEmptyCells(g)
    IN  IF Len(emptyCells) = 0 THEN g
        ELSE LET randomCell == emptyCells[index]
                 newGrid == CopyGrid(g)
             IN  [newGrid EXCEPT ![randomCell[1]][randomCell[2]] =
                                     Tile(id - 1, level, randomCell[1], randomCell[2])]

\* spawnRandomTile: the cell Math.random picks among the empty ones, and the tile of
\* generateTile; the grid itself comes back when no cell is empty.
spawnRandomTile(g, index, level, id) ==
    LET emptyCells == getEmptyCells(g)
    IN  IF Len(emptyCells) = 0 THEN g
        ELSE LET randomCell == emptyCells[index]
                 newGrid == CopyGrid(g)
             IN  [newGrid EXCEPT ![randomCell[1]][randomCell[2]] =
                                     Tile(id, level, randomCell[1], randomCell[2])]

Snapshot(g, s, n, p, levels) ==
    [grid |-> g, score |-> s, nextId |-> n, powerUpState |-> p, generatedPowerUpLevels |-> levels]

\* Math.max(minStates, extraStates + 2)
maxStates(extraUndos) == Max(MinStates, extraUndos + 2)

\* setUndoHistory(prev => ...): append, then keep the last maxStates entries.
pushHistory(history, stateToSave, extraUndos) ==
    LET newHistory == Append(history, stateToSave)
    IN  IF Len(newHistory) > maxStates(extraUndos)
        THEN SubSeq(newHistory, Len(newHistory) - maxStates(extraUndos) + 1, Len(newHistory))
        ELSE newHistory

\* What the power-up generation block of handleMove grants for the final grid: one of
\* the types generateRandomPowerUp draws from, or nothing.
GrantTypes(finalGrid) ==
    LET currentHighest == getHighestTileLevel(finalGrid)
        isNewHighest == currentHighest > highestTileReached
        alreadyGeneratedForThisLevel == currentHighest \in generatedPowerUpLevels
        shouldGenerate == shouldGeneratePowerUp(powerUpState.powerUps, highestTileReached,
                                                currentHighest)
    IN  IF isNewHighest /\ ~alreadyGeneratedForThisLevel /\ ~isUndoingRef /\ shouldGenerate
        THEN PowerUpTypes
        ELSE {"none"}

\* The part of handleMove after a resolution with moved = true, for one outcome of the
\* random choices: the spawn (index, level) and the type of a granted power-up.
MoveApplied(direction, r, finalGrid, spawns, grantType) ==
    LET stateToSave == Snapshot(ClearFlags(grid), score, nextId, powerUpState,
                                generatedPowerUpLevels)
        currentHighest == getHighestTileLevel(finalGrid)
        isNewHighest == currentHighest > highestTileReached
        grants == grantType # "none"
        granted == [powerUpState EXCEPT
                       !.powerUps = IF grants
                                    THEN Append(@, [id |-> powerUpSeq, type |-> grantType])
                                    ELSE @]
        gameOver == checkGameOver(finalGrid, powerUpState.frozenTiles)
    IN  /\ previousState' = <<stateToSave>>
        /\ undoHistory' = pushHistory(undoHistory, stateToSave, powerUpState.extraUndos)
        /\ grid' = finalGrid
        /\ nextId' = IF spawns THEN nextId + 1 ELSE nextId
        /\ score' = score + r.score
        /\ canUndo' = TRUE
        /\ highestTileReached' = IF isNewHighest THEN currentHighest ELSE highestTileReached
        /\ generatedPowerUpLevels' = IF grants THEN generatedPowerUpLevels \cup {currentHighest}
                                     ELSE generatedPowerUpLevels
        /\ powerUpSeq' = IF grants THEN powerUpSeq + 1 ELSE powerUpSeq
        /\ undoPowerUpsGenerated' = IF grantType = "undo"
                                    THEN undoPowerUpsGenerated + 1 ELSE undoPowerUpsGenerated
        /\ grantedLevels' = IF grants THEN Append(grantedLevels, currentHighest)
                            ELSE grantedLevels
        /\ powerUpState' = [granted EXCEPT
                               !.frozenTiles = updateFrozenTiles(@),
                               !.slowMotionTurns = decrementSlowMotion(@)]
        /\ isGameOver' = gameOver
        \* checkScoreQualification(score): one check at a time
        /\ isCheckingScore' = (isCheckingScore \/ gameOver)
        /\ pendingCheck' = IF gameOver /\ ~isCheckingScore THEN <<score>> ELSE pendingCheck
        /\ savedGame' = AutoSave([savedGame EXCEPT
                                     !.canUndoAfterGameOver = IF gameOver THEN TRUE ELSE @],
                                 TRUE, gameOver)
        /\ moves' = moves + 1
        /\ slowMoMoves' = IF slowMoMoves >= 0 THEN slowMoMoves + 1 ELSE slowMoMoves
        /\ last' = [op |-> "move", direction |-> direction, blocked |-> FALSE,
                    moved |-> TRUE, merged |-> r.merged, events |-> r.events,
                    frozenTiles |-> powerUpState.frozenTiles,
                    slowMotionTurns |-> powerUpState.slowMotionTurns,
                    tilesBefore |-> TileCount(grid), tilesResolved |-> TileCount(r.grid),
                    spawned |-> spawns, granted |-> grantType, gameOver |-> gameOver]
        \* updateMaxDiscoveredRank(mergeResult.level) at every merge of the resolution
        /\ maxDiscoveredRank' = RanksDiscovered(maxDiscoveredRank, r.events, 1)
        /\ UNCHANGED <<isSavingScore, isUndoingRef, scoreHasBeenSaved, localPendingScore>>

\* The grids spawnRandomTile can return for the resolved grid (the grid itself while
\* slow motion runs, when handleMove does not call it), each with whether a tile spawned.
FinalGrids(resolved) ==
    IF powerUpState.slowMotionTurns > 0 \/ Len(getEmptyCells(resolved)) = 0
    THEN {[grid |-> resolved, spawns |-> FALSE]}
    ELSE {[grid |-> spawnRandomTile(resolved, index, level, nextId), spawns |-> TRUE] :
             index \in 1..Min(MaxSpawnCells, Len(getEmptyCells(resolved))),
             level \in SpawnKinds}

\* A denied move that still spawns a tile (fault model).
MoveDeniedButSpawns(direction, r) ==
    /\ grid' = spawnRandomTile(ClearFlags(grid), 1, 1, nextId)
    /\ nextId' = nextId + 1
    /\ last' = [op |-> "move", direction |-> direction, blocked |-> FALSE,
                moved |-> FALSE, merged |-> r.merged, events |-> r.events,
                spawned |-> TRUE]
    /\ UNCHANGED <<isSavingScore, maxDiscoveredRank, score, isGameOver, previousState, undoHistory,
                   canUndo, isUndoingRef, generatedPowerUpLevels,
                   highestTileReached, powerUpState, scoreHasBeenSaved,
                   localPendingScore, isCheckingScore, pendingCheck,
                   savedGame, powerUpSeq, moves, undoPowerUpsGenerated, grantedLevels, slowMoMoves>>

\* handleMove when the resolution ends with moved = false: nothing is set; the flags
\* were cleared on the tile objects the grid shares with the copy.
MoveDenied(direction, r) ==
    /\ grid' = ClearFlags(grid)
    /\ last' = [op |-> "move", direction |-> direction, blocked |-> FALSE,
                moved |-> FALSE, merged |-> r.merged, events |-> r.events,
                spawned |-> FALSE]
    /\ UNCHANGED <<isSavingScore, maxDiscoveredRank, nextId, score, isGameOver, previousState, undoHistory,
                   canUndo, isUndoingRef, generatedPowerUpLevels,
                   highestTileReached, powerUpState, scoreHasBeenSaved,
                   localPendingScore, isCheckingScore, pendingCheck,
                   savedGame, powerUpSeq, moves, undoPowerUpsGenerated, grantedLevels, slowMoMoves>>

\* Moves that are let through while a selection is armed (fault model).
moveBlockedNever == FALSE

\* handleMove returns at once while a power-up selection locks the input.
moveBlocked == powerUpState.inputLocked

\* handleMove, explored while the session is within its budget of moves.
\* Keyboard and swipe input is disabled while the game is over.
HandleMoveWithin(direction, withinBudget) ==
    /\ ~isGameOver
    /\ withinBudget
    /\ IF moveBlocked
       THEN /\ last' = [op |-> "move", direction |-> direction, blocked |-> TRUE]
            /\ UNCHANGED <<isSavingScore, maxDiscoveredRank, grid, nextId, score, isGameOver, previousState, undoHistory,
                           canUndo, isUndoingRef, generatedPowerUpLevels, highestTileReached,
                           powerUpState, scoreHasBeenSaved, localPendingScore,
                           isCheckingScore, pendingCheck, savedGame, powerUpSeq, moves,
                           undoPowerUpsGenerated, grantedLevels, slowMoMoves>>
       ELSE \E r \in {ResolveMove(grid, direction, powerUpState.frozenTiles)} :
                IF ~r.moved
                THEN MoveDenied(direction, r)
                ELSE \E final \in FinalGrids(r.grid) :
                        \E grantType \in GrantTypes(final.grid) :
                            MoveApplied(direction, r, final.grid, final.spawns, grantType)

HandleMove(direction) == HandleMoveWithin(direction, moves < MaxMoves)

-----------------------------------------------------------------------------
(* handleUndo *)

\* The undo button is clickable, or the U key is live (keys are dead while the game is over).
UndoInputEnabled ==
    LET isFinalized == savedGame.gameFinalized
        afterGameOver == isGameOver /\ savedGame.canUndoAfterGameOver
                         /\ ~scoreHasBeenSaved /\ ~isFinalized
        canUndoProp == \/ canUndo /\ ~scoreHasBeenSaved /\ ~isFinalized
                       \/ afterGameOver
                       \/ powerUpState.extraUndos > 0
        disabled == \/ isGameOver /\ ~(savedGame.canUndoAfterGameOver
                                       \/ powerUpState.extraUndos > 0)
                    \/ powerUpState.inputLocked
        allowUndoWhenDisabled ==
            \/ afterGameOver
            \/ isGameOver /\ powerUpState.extraUndos > 0
                          /\ (previousState # <<>> \/ Len(undoHistory) > 0)
                          /\ ~scoreHasBeenSaved /\ ~isFinalized
    IN  \/ canUndoProp /\ ~(disabled /\ ~allowUndoWhenDisabled)
        \/ ~isGameOver /\ canUndo

\* A finalized flag that is never seen (fault model).
hasFinalizedGameNever == FALSE

\* hasFinalizedGame: the saved game carries gameFinalized.
hasFinalizedGame == savedGame.gameFinalized

normalUndoAllowed ==
    \/ canUndo /\ ~scoreHasBeenSaved /\ ~hasFinalizedGame
    \/ isGameOver /\ savedGame.canUndoAfterGameOver /\ ~scoreHasBeenSaved
                  /\ ~hasFinalizedGame

hasAnyUndoState == previousState # <<>> \/ Len(undoHistory) > 0

extraUndoAvailable ==
    /\ powerUpState.extraUndos > 0
    /\ hasAnyUndoState
    /\ ~scoreHasBeenSaved
    /\ ~hasFinalizedGame

\* undoHistory[0] for an extra undo with a history, previousState otherwise.
stateToRestore(usingExtraUndo) ==
    IF usingExtraUndo /\ Len(undoHistory) > 0 THEN undoHistory[1]
    ELSE previousState[1]

\* An extra undo that spends no credit (fault model).
undoPowerUpStateFree(usingExtraUndo, restored) ==
    IF ~usingExtraUndo
    THEN [restored.powerUpState EXCEPT
             !.extraUndos = Min(restored.powerUpState.extraUndos, powerUpState.extraUndos)]
    ELSE powerUpState

\* The power-up state after an undo: a baseline undo takes the snapshot's, capped
\* extraUndos; an extra undo keeps the current one, less the credit it spent.
undoPowerUpState(usingExtraUndo, restored) ==
    IF ~usingExtraUndo
    THEN [restored.powerUpState EXCEPT
             !.extraUndos = Min(restored.powerUpState.extraUndos, powerUpState.extraUndos)]
    ELSE [powerUpState EXCEPT !.extraUndos = Max(0, @ - 1)]

\* Resetting the tracker to the restored grid's highest level (fault model).
undoHighestTileFromGrid(restored) == getHighestTileLevel(restored.grid)

\* handleUndo keeps highestTileReached: gridHighestTile is computed and only logged.
undoHighestTile(restored) == highestTileReached

UndoNothing(why) ==
    /\ last' = [op |-> "undo", performed |-> FALSE, why |-> why]
    /\ UNCHANGED <<isSavingScore, maxDiscoveredRank, grid, nextId, score, isGameOver, previousState, undoHistory, canUndo,
                   isUndoingRef, generatedPowerUpLevels, highestTileReached, powerUpState,
                   scoreHasBeenSaved, localPendingScore, isCheckingScore, pendingCheck,
                   savedGame, powerUpSeq, moves, undoPowerUpsGenerated, grantedLevels, slowMoMoves>>

HandleUndo ==
    /\ UndoInputEnabled
    /\ IF powerUpState.inputLocked THEN UndoNothing("locked")
       ELSE IF ~(normalUndoAllowed \/ extraUndoAvailable) THEN UndoNothing("not available")
       ELSE IF ~hasAnyUndoState THEN UndoNothing("no state")
       ELSE LET usingExtraUndo == extraUndoAvailable
            IN  IF ~(usingExtraUndo /\ Len(undoHistory) > 0) /\ previousState = <<>>
                THEN \* "No state to restore": returns with the flag left set
                     /\ isUndoingRef' = TRUE
                     /\ last' = [op |-> "undo", performed |-> FALSE, why |-> "nothing to restore"]
                     /\ UNCHANGED <<isSavingScore, maxDiscoveredRank, grid, nextId, score, isGameOver, previousState,
                                    undoHistory, canUndo, generatedPowerUpLevels,
                                    highestTileReached, powerUpState, scoreHasBeenSaved,
                                    localPendingScore, isCheckingScore, pendingCheck,
                                    savedGame, powerUpSeq, moves, undoPowerUpsGenerated, grantedLevels, slowMoMoves>>
                ELSE LET restored == stateToRestore(usingExtraUndo)
                     IN  /\ isUndoingRef' = TRUE
                         /\ grid' = restored.grid
                         /\ score' = restored.score
                         /\ nextId' = restored.nextId
                         /\ generatedPowerUpLevels' = restored.generatedPowerUpLevels
                         /\ powerUpState' = undoPowerUpState(usingExtraUndo, restored)
                         /\ undoHistory' =
                                IF usingExtraUndo
                                THEN \* slice(1); the deferred clean-up reads the credits
                                     \* of this render, which are positive
                                     LET sliced == IF Len(undoHistory) > 0
                                                   THEN Tail(undoHistory) ELSE undoHistory
                                     IN  IF powerUpState.extraUndos = 0 THEN <<>> ELSE sliced
                                ELSE <<>>
                         /\ previousState' = IF usingExtraUndo THEN previousState ELSE <<>>
                         /\ canUndo' = IF usingExtraUndo THEN canUndo ELSE FALSE
                         /\ isGameOver' = FALSE
                         /\ localPendingScore' = <<>>
                         /\ scoreHasBeenSaved' = FALSE
                         /\ savedGame' = AutoSave([savedGame EXCEPT
                                                      !.canUndoAfterGameOver = FALSE],
                                                  TRUE, FALSE)
                         /\ last' = [op |-> "undo", performed |-> TRUE,
                                     usingExtraUndo |-> usingExtraUndo,
                                     restored |-> restored,
                                     historyBefore |-> Len(undoHistory),
                                     wasGameOver |-> isGameOver]
                         /\ highestTileReached' = undoHighestTile(restored)
                         /\ slowMoMoves' = -1
                         /\ UNCHANGED <<isSavingScore, maxDiscoveredRank, isCheckingScore, pendingCheck,
                                        powerUpSeq, moves, undoPowerUpsGenerated, grantedLevels>>

\* setTimeout(..., 100) of handleUndo: power-up generation is enabled again.
UndoTimer ==
    /\ isUndoingRef
    /\ isUndoingRef' = FALSE
    /\ last' = [op |-> "timer"]
    /\ UNCHANGED <<isSavingScore, maxDiscoveredRank, grid, nextId, score, isGameOver, previousState, undoHistory, canUndo,
                   generatedPowerUpLevels, highestTileReached, powerUpState,
                   scoreHasBeenSaved, localPendingScore, isCheckingScore, pendingCheck,
                   savedGame, powerUpSeq, moves, undoPowerUpsGenerated, grantedLevels, slowMoMoves>>

\* What the leaderboard read of getLeaderboard can come back with: an I/O failure, or
\* the stored entries, of which the model keeps the number and the lowest score.
LeaderboardReads ==
    {[failed |-> TRUE, length |-> 0, lastScore |-> 0],
     [failed |-> FALSE, length |-> 3, lastScore |-> 50],
     [failed |-> FALSE, length |-> LeaderboardSize, lastScore |-> 100],
     [failed |-> FALSE, length |-> LeaderboardSize, lastScore |-> 100000]}

\* getLeaderboard: the entries read, or the empty list when the read fails.
getLeaderboard(read) ==
    IF read.failed THEN [length |-> 0, lastScore |-> 0]
    ELSE [length |-> read.length, lastScore |-> read.lastScore]

\* isTopScore: fewer than 100 entries, or a score above the lowest one.
isTopScore(scoreToCheck, read) ==
    \/ getLeaderboard(read).length < LeaderboardSize
    \/ scoreToCheck > getLeaderboard(read).lastScore

\* The isTopScore promise of checkScoreQualification settles on a leaderboard read;
\* the catch branch does what the branch for a score that does not qualify does.
CheckSettles(read) ==
    /\ pendingCheck # <<>>
    /\ pendingCheck' = <<>>
    /\ isCheckingScore' = FALSE
    /\ IF isTopScore(pendingCheck[1], read)
       THEN localPendingScore' = pendingCheck /\ UNCHANGED scoreHasBeenSaved
       ELSE scoreHasBeenSaved' = TRUE /\ UNCHANGED localPendingScore
    /\ last' = [op |-> "check", readFailed |-> read.failed,
                outcome |-> IF isTopScore(pendingCheck[1], read)
                            THEN "qualifies" ELSE "does not qualify"]
    /\ UNCHANGED <<isSavingScore, maxDiscoveredRank, grid, nextId, score, isGameOver, previousState, undoHistory, canUndo,
                   isUndoingRef, generatedPowerUpLevels, highestTileReached, powerUpState,
                   savedGame, powerUpSeq, moves, undoPowerUpsGenerated, grantedLevels, slowMoMoves>>

-----------------------------------------------------------------------------
(* handleNameSubmission, handleSkipHighScore *)

\* finalizeCurrentGame: the saved game is marked finalized and loses the
\* undo-after-game-over grant.
finalizeCurrentGame(flags) ==
    [flags EXCEPT !.gameFinalized = TRUE, !.canUndoAfterGameOver = FALSE]

\* The name entry of the game-over overlay is submitted: addScoreToLeaderboard starts.
HandleNameSubmission ==
    /\ isGameOver
    /\ ~isCheckingScore
    /\ localPendingScore # <<>>
    /\ ~isSavingScore
    /\ isSavingScore' = TRUE
    /\ last' = [op |-> "submit"]
    /\ UNCHANGED <<maxDiscoveredRank, grid, nextId, score, isGameOver, previousState, undoHistory, canUndo,
                   isUndoingRef, generatedPowerUpLevels, highestTileReached, powerUpState,
                   scoreHasBeenSaved, localPendingScore, isCheckingScore, pendingCheck,
                   savedGame, powerUpSeq, moves, undoPowerUpsGenerated, grantedLevels,
                   slowMoMoves>>

\* The addScoreToLeaderboard promise settles: on success the score is marked saved and
\* the game finalized; on failure (false or an exception) the pending score is kept.
SubmissionSettles(success) ==
    /\ isSavingScore
    /\ isSavingScore' = FALSE
    /\ IF success
       THEN /\ scoreHasBeenSaved' = TRUE
            /\ localPendingScore' = <<>>
            /\ savedGame' = finalizeCurrentGame(savedGame)
            /\ previousState' = <<>>
            /\ canUndo' = FALSE
       ELSE UNCHANGED <<scoreHasBeenSaved, localPendingScore, savedGame, previousState,
                        canUndo>>
    /\ last' = [op |-> "saved", success |-> success]
    /\ UNCHANGED <<maxDiscoveredRank, grid, nextId, score, isGameOver, undoHistory, isUndoingRef,
                   generatedPowerUpLevels, highestTileReached, powerUpState,
                   isCheckingScore, pendingCheck, powerUpSeq, moves,
                   undoPowerUpsGenerated, grantedLevels, slowMoMoves>>

\* handleSkipHighScore, called when the player confirms to discard the pending score.
HandleSkipHighScore ==
    /\ isGameOver
    /\ ~isCheckingScore
    /\ ~isSavingScore
    /\ localPendingScore # <<>>
    /\ localPendingScore' = <<>>
    /\ savedGame' = finalizeCurrentGame(savedGame)
    /\ previousState' = <<>>
    /\ canUndo' = FALSE
    /\ last' = [op |-> "skip"]
    /\ UNCHANGED <<maxDiscoveredRank, grid, nextId, score, isGameOver, undoHistory, isUndoingRef,
                   generatedPowerUpLevels, highestTileReached, powerUpState,
                   scoreHasBeenSaved, isCheckingScore, isSavingScore, pendingCheck,
                   powerUpSeq, moves, undoPowerUpsGenerated, grantedLevels, slowMoMoves>>

-----------------------------------------------------------------------------
(* Power-ups: handleUsePowerUp, handleTileSelection, applyPowerUpSelection *)

startPowerUpSelection(type, powerUpId) ==
    [type |-> type, required |-> IF type = "swap" THEN 2 ELSE 1, picked |-> <<>>,
     powerUpId |-> powerUpId]

IsSelecting == powerUpState.selectingPowerUp # NoSelection

canPickTile(row, col, g, selectingPowerUp, frozenTiles) ==
    IF selectingPowerUp = NoSelection THEN FALSE
    ELSE IF ~IsTile(g[row][col]) THEN FALSE
    ELSE IF selectingPowerUp.type = "swap" /\ isTileFrozen(g[row][col].id, frozenTiles) THEN FALSE
    ELSE TRUE

\* A pick that is appended even when the cell is already in the list (fault model).
addPickedTileAgain(selectingPowerUp, cell) ==
    [selectingPowerUp EXCEPT !.picked = Append(@, cell)]

addPickedTile(selectingPowerUp, cell) ==
    IF \E i \in 1..Len(selectingPowerUp.picked) : selectingPowerUp.picked[i] = cell
    THEN selectingPowerUp
    ELSE [selectingPowerUp EXCEPT !.picked = Append(@, cell)]

isSelectionComplete(selectingPowerUp) ==
    Len(selectingPowerUp.picked) >= selectingPowerUp.required

\* The power-up bar is disabled while the game is over or a selection is armed.
HandleUsePowerUp(powerUpId) ==
    /\ ~isGameOver
    /\ ~powerUpState.inputLocked
    /\ \E i \in 1..Len(powerUpState.powerUps) :
          /\ powerUpState.powerUps[i].id = powerUpId
          /\ LET type == powerUpState.powerUps[i].type
             IN  /\ powerUpState' =
                        CASE type = "undo" ->
                                 [powerUpState EXCEPT
                                     !.powerUps = removePowerUp(@, powerUpId),
                                     !.extraUndos = @ + 1]
                          [] type = "slowmo" ->
                                 [powerUpState EXCEPT
                                     !.powerUps = removePowerUp(@, powerUpId),
                                     !.slowMotionTurns = SlowMoTurns]
                          [] OTHER ->
                                 [powerUpState EXCEPT
                                     !.selectingPowerUp = startPowerUpSelection(type, powerUpId),
                                     !.inputLocked = TRUE]
                 /\ slowMoMoves' = IF type = "slowmo" THEN 0 ELSE slowMoMoves
                 /\ last' = [op |-> "use", type |-> type, powerUpId |-> powerUpId]
    /\ savedGame' = AutoSave(savedGame, TRUE, isGameOver)
    /\ UNCHANGED <<isSavingScore, maxDiscoveredRank, grid, nextId, score, isGameOver, previousState, undoHistory, canUndo,
                   isUndoingRef, generatedPowerUpLevels, highestTileReached,
                   scoreHasBeenSaved, localPendingScore, isCheckingScore, pendingCheck,
                   powerUpSeq, moves, undoPowerUpsGenerated, grantedLevels>>

\* A cancel that also spends the power-up of the selection (fault model).
cancelSelectionConsumes(prev) ==
    [prev EXCEPT !.powerUps = removePowerUp(@, prev.selectingPowerUp.powerUpId),
                 !.selectingPowerUp = NoSelection,
                 !.inputLocked = FALSE]

\* The functional update of handleCancelSelection.
cancelSelection(prev) ==
    [prev EXCEPT !.selectingPowerUp = NoSelection, !.inputLocked = FALSE]

HandleCancelSelection ==
    /\ IsSelecting
    /\ powerUpState' = cancelSelection(powerUpState)
    /\ savedGame' = AutoSave(savedGame, TRUE, isGameOver)
    /\ last' = [op |-> "cancel", picked |-> Len(powerUpState.selectingPowerUp.picked)]
    /\ UNCHANGED <<isSavingScore, maxDiscoveredRank, grid, nextId, score, isGameOver, previousState, undoHistory, canUndo,
                   isUndoingRef, generatedPowerUpLevels, highestTileReached,
                   scoreHasBeenSaved, localPendingScore, isCheckingScore, pendingCheck,
                   powerUpSeq, moves, undoPowerUpsGenerated, grantedLevels, slowMoMoves>>

\* applyPowerUpSelection on the completed selection, reading the grid and the frozen
\* tiles of the render: the new grid and power-up state, or the ones passed in when the
\* effect does not apply.
applyPowerUpSelection(selection, g, p) ==
    LET done == [p EXCEPT !.powerUps = removePowerUp(@, selection.powerUpId),
                          !.selectingPowerUp = NoSelection,
                          !.inputLocked = FALSE]
        first == selection.picked[1]
    IN  CASE selection.type = "freeze" ->
                 IF Len(selection.picked) = 1 /\ IsTile(grid[first[1]][first[2]])
                    /\ ~isTileFrozen(grid[first[1]][first[2]].id, powerUpState.frozenTiles)
                 THEN [grid |-> g, applied |-> TRUE,
                       powerUpState |-> [done EXCEPT
                           !.frozenTiles = freezeTile(@, grid[first[1]][first[2]].id, FreezeTurns)]]
                 ELSE [grid |-> g, applied |-> FALSE, powerUpState |-> p]
          [] selection.type = "delete" ->
                 IF Len(selection.picked) = 1 /\ IsTile(grid[first[1]][first[2]])
                 THEN [grid |-> [grid EXCEPT ![first[1]][first[2]] = NoTile],
                       applied |-> TRUE, powerUpState |-> done]
                 ELSE [grid |-> g, applied |-> FALSE, powerUpState |-> p]
          [] selection.type = "swap" ->
                 IF Len(selection.picked) = 2
                 THEN LET second == selection.picked[2]
                          firstTile == grid[first[1]][first[2]]
                          secondTile == grid[second[1]][second[2]]
                      IN  IF IsTile(firstTile) /\ IsTile(secondTile)
                          THEN [grid |-> [grid EXCEPT
                                    ![first[1]][first[2]] =
                                        [secondTile EXCEPT !.row = first[1], !.col = first[2]],
                                    ![second[1]][second[2]] =
                                        [firstTile EXCEPT !.row = second[1], !.col = second[2]]],
                                applied |-> TRUE, powerUpState |-> done]
                          ELSE [grid |-> g, applied |-> FALSE, powerUpState |-> p]
                 ELSE [grid |-> g, applied |-> FALSE, powerUpState |-> p]

\* The first empty cell of the grid in reading order, <<>> on a full grid.
FirstEmptyCell(g) ==
    LET empty == {cell \in (0..3) \X (0..3) : ~IsTile(g[cell[1]][cell[2]])}
    IN  IF empty = {} THEN <<>>
        ELSE CHOOSE cell \in empty :
                 \A other \in empty : 4 * cell[1] + cell[2] <= 4 * other[1] + other[2]

\* handleTileSelection for the cell (row, col) while a selection is armed: a tile, or
\* one empty cell as the representative of the cells without a tile.
HandleTileSelection(row, col) ==
    /\ IsSelecting
    /\ IsTile(grid[row][col]) \/ <<row, col>> = FirstEmptyCell(grid)
    /\ LET selectingPowerUp == powerUpState.selectingPowerUp
       IN  IF ~canPickTile(row, col, grid, selectingPowerUp, powerUpState.frozenTiles)
           THEN /\ last' = [op |-> "pick", row |-> row, col |-> col, picked |-> FALSE,
                            applied |-> FALSE]
                /\ UNCHANGED <<grid, powerUpState, savedGame>>
           ELSE LET newSelection == addPickedTile(selectingPowerUp, <<row, col>>)
                    selected == [powerUpState EXCEPT !.selectingPowerUp = newSelection]
                    result == IF isSelectionComplete(newSelection)
                              THEN applyPowerUpSelection(newSelection, grid, selected)
                              ELSE [grid |-> grid, applied |-> FALSE, powerUpState |-> selected]
                IN  /\ grid' = result.grid
                    /\ powerUpState' = result.powerUpState
                    /\ savedGame' = AutoSave(savedGame, TRUE, isGameOver)
                    /\ last' = [op |-> "pick", row |-> row, col |-> col,
                                picked |-> newSelection # selectingPowerUp,
                                applied |-> result.applied]
    /\ UNCHANGED <<isSavingScore, maxDiscoveredRank, nextId, score, isGameOver, previousState, undoHistory, canUndo,
                   isUndoingRef, generatedPowerUpLevels, highestTileReached,
                   scoreHasBeenSaved, localPendingScore, isCheckingScore, pendingCheck,
                   powerUpSeq, moves, undoPowerUpsGenerated, grantedLevels, slowMoMoves>>

-----------------------------------------------------------------------------

Next ==
    \/ \E direction \in Directions : HandleMove(direction)
    \/ HandleUndo
    \/ UndoTimer
    \/ \E read \in LeaderboardReads : CheckSettles(read)
    \/ HandleNameSubmission
    \/ \E success \in BOOLEAN : SubmissionSettles(success)
    \/ HandleSkipHighScore
    \/ \E powerUpId \in 1..(powerUpSeq - 1) : HandleUsePowerUp(powerUpId)
    \/ \E row \in Cells, col \in Cells : HandleTileSelection(row, col)
    \/ HandleCancelSelection

Spec == Init /\ [][Next]_vars

-----------------------------------------------------------------------------
(* Full inventories: saved games written with 5 and with 4 power-ups, on a board   *)
(* whose first merge raises the highest level. No board of theirs can fill up, so  *)
(* no qualification check is ever started.                                         *)

InventoryGames == <<
    [levels |-> << <<0, 0, 0, 0>>, <<0, 1, 1, 0>>, <<0, 0, 0, 0>>, <<0, 0, 0, 0>> >>,
     frozen |-> NoFrozen, powerUps |-> <<"undo", "slowmo", "freeze", "delete", "swap">>,
     slowMotionTurns |-> 0, extraUndos |-> 0, score |-> 0],
    [levels |-> << <<2, 0, 0, 0>>, <<2, 0, 0, 0>>, <<0, 0, 0, 0>>, <<0, 0, 0, 0>> >>,
     frozen |-> NoFrozen, powerUps |-> <<"undo", "undo", "slowmo", "freeze">>,
     slowMotionTurns |-> 0, extraUndos |-> 0, score |-> 8]
>>

InventoryInit ==
    /\ \E i \in 1..Len(InventoryGames) : LoadSavedGame(InventoryGames[i])
    /\ isGameOver = FALSE
    /\ previousState = <<>>
    /\ undoHistory = <<>>
    /\ canUndo = FALSE
    /\ isUndoingRef = FALSE
    /\ generatedPowerUpLevels = {}
    /\ scoreHasBeenSaved = FALSE
    /\ localPendingScore = <<>>
    /\ isCheckingScore = FALSE
    /\ isSavingScore = FALSE
    /\ maxDiscoveredRank = NoItem
    /\ pendingCheck = <<>>
    /\ savedGame = [gameFinalized |-> FALSE, canUndoAfterGameOver |-> FALSE]
    /\ moves = 0
    /\ undoPowerUpsGenerated = 0
    /\ grantedLevels = <<>>
    /\ slowMoMoves = -1
    /\ last = Start

InventoryNext ==
    \/ \E direction \in Directions : HandleMoveWithin(direction, moves < MaxInventoryMoves)
    \/ HandleUndo
    \/ UndoTimer
    \/ \E powerUpId \in 1..(powerUpSeq - 1) : HandleUsePowerUp(powerUpId)
    \/ \E row \in Cells, col \in Cells : HandleTileSelection(row, col)
    \/ HandleCancelSelection

InventorySpec == InventoryInit /\ [][InventoryNext]_vars

-----------------------------------------------------------------------------
(* Freeze with an extra undo: saved games that hold a Freeze power-up and one      *)
(* extra-undo credit on a board that cannot fill up within MaxMoves moves.         *)

FreezeUndoGames == <<
    [levels |-> << <<0, 0, 0, 0>>, <<0, 1, 0, 0>>, <<0, 0, 0, 0>>, <<0, 0, 0, 9>> >>,
     frozen |-> NoFrozen, powerUps |-> <<"freeze">>, slowMotionTurns |-> 0,
     extraUndos |-> 1, score |-> 1000],
    [levels |-> << <<2, 0, 0, 0>>, <<0, 0, 0, 0>>, <<0, 0, 9, 0>>, <<0, 0, 0, 0>> >>,
     frozen |-> NoFrozen, powerUps |-> <<"freeze", "delete">>, slowMotionTurns |-> 0,
     extraUndos |-> 1, score |-> 1000]
>>

FreezeUndoInit ==
    /\ \E i \in 1..Len(FreezeUndoGames) : LoadSavedGame(FreezeUndoGames[i])
    /\ isGameOver = FALSE
    /\ previousState = <<>>
    /\ undoHistory = <<>>
    /\ canUndo = FALSE
    /\ isUndoingRef = FALSE
    /\ generatedPowerUpLevels = {}
    /\ scoreHasBeenSaved = FALSE
    /\ localPendingScore = <<>>
    /\ isCheckingScore = FALSE
    /\ isSavingScore = FALSE
    /\ maxDiscoveredRank = NoItem
    /\ pendingCheck = <<>>
    /\ savedGame = [gameFinalized |-> FALSE, canUndoAfterGameOver |-> FALSE]
    /\ moves = 0
    /\ undoPowerUpsGenerated = 0
    /\ grantedLevels = <<>>
    /\ slowMoMoves = -1
    /\ last = Start

FreezeUndoNext ==
    \/ \E direction \in Directions : HandleMove(direction)
    \/ HandleUndo
    \/ UndoTimer
    \/ \E powerUpId \in 1..(powerUpSeq - 1) : HandleUsePowerUp(powerUpId)
    \/ \E row \in Cells, col \in Cells : HandleTileSelection(row, col)
    \/ HandleCancelSelection

FreezeUndoSpec == FreezeUndoInit /\ [][FreezeUndoNext]_vars

-----------------------------------------------------------------------------
(* Slow-motion sessions: saved games that hold a SlowMo power-up and nothing else,  *)
(* followed from its activation for MaxSlowMoMoves successful moves with no undo.   *)
(* No selection can be armed and no board of theirs can fill up.                    *)

\* Sessions that freeze one tile and then move: saved games with a Freeze power-up.
FreezeGames == <<
    [levels |-> << <<0, 0, 0, 0>>, <<0, 1, 0, 0>>, <<0, 0, 0, 0>>, <<0, 0, 0, 9>> >>,
     frozen |-> NoFrozen, powerUps |-> <<"freeze">>, slowMotionTurns |-> 0,
     extraUndos |-> 0, score |-> 1000],
    [levels |-> << <<0, 0, 0, 0>>, <<0, 0, 9, 0>>, <<0, 3, 0, 0>>, <<0, 0, 0, 0>> >>,
     frozen |-> NoFrozen, powerUps |-> <<"freeze">>, slowMotionTurns |-> 0,
     extraUndos |-> 0, score |-> 1000]
>>

FreezeInit ==
    /\ \E i \in 1..Len(FreezeGames) : LoadSavedGame(FreezeGames[i])
    /\ isGameOver = FALSE
    /\ previousState = <<>>
    /\ undoHistory = <<>>
    /\ canUndo = FALSE
    /\ isUndoingRef = FALSE
    /\ generatedPowerUpLevels = {}
    /\ scoreHasBeenSaved = FALSE
    /\ localPendingScore = <<>>
    /\ isCheckingScore = FALSE
    /\ isSavingScore = FALSE
    /\ maxDiscoveredRank = NoItem
    /\ pendingCheck = <<>>
    /\ savedGame = [gameFinalized |-> FALSE, canUndoAfterGameOver |-> FALSE]
    /\ moves = 0
    /\ undoPowerUpsGenerated = 0
    /\ grantedLevels = <<>>
    /\ slowMoMoves = -1
    /\ last = Start

\* The Freeze is used before the first move, and moves are followed from its
\* application on; power-ups granted on the way stay in the inventory.
FreezeNext ==
    \/ \E direction \in Directions :
          HandleMoveWithin(direction,
                           /\ moves < MaxFreezeMoves
                           /\ powerUpState.frozenTiles # NoFrozen \/ moves > 0)
    \/ \E powerUpId \in 1..(powerUpSeq - 1) : moves = 0 /\ HandleUsePowerUp(powerUpId)
    \/ \E row \in Cells, col \in Cells : HandleTileSelection(row, col)
    \/ HandleCancelSelection

FreezeSpec == FreezeInit /\ [][FreezeNext]_vars

\* Sessions that start with lines of equal tiles: a row and a column of four, and
\* lines where a merged tile meets a tile of its new level.
MergeGames == <<
    [levels |-> << <<2, 2, 2, 2>>, <<1, 1, 2, 0>>, <<0, 0, 0, 0>>, <<0, 0, 0, 9>> >>,
     frozen |-> NoFrozen, powerUps |-> <<>>, slowMotionTurns |-> 0,
     extraUndos |-> 0, score |-> 1000],
    [levels |-> << <<1, 0, 0, 3>>, <<1, 0, 0, 3>>, <<1, 0, 0, 4>>, <<1, 9, 0, 0>> >>,
     frozen |-> NoFrozen, powerUps |-> <<>>, slowMotionTurns |-> 0,
     extraUndos |-> 0, score |-> 1000]
>>

MergeInit ==
    /\ \E i \in 1..Len(MergeGames) : LoadSavedGame(MergeGames[i])
    /\ isGameOver = FALSE
    /\ previousState = <<>>
    /\ undoHistory = <<>>
    /\ canUndo = FALSE
    /\ isUndoingRef = FALSE
    /\ generatedPowerUpLevels = {}
    /\ scoreHasBeenSaved = FALSE
    /\ localPendingScore = <<>>
    /\ isCheckingScore = FALSE
    /\ isSavingScore = FALSE
    /\ maxDiscoveredRank = NoItem
    /\ pendingCheck = <<>>
    /\ savedGame = [gameFinalized |-> FALSE, canUndoAfterGameOver |-> FALSE]
    /\ moves = 0
    /\ undoPowerUpsGenerated = 0
    /\ grantedLevels = <<>>
    /\ slowMoMoves = -1
    /\ last = Start

MergeNext == \E direction \in Directions : HandleMove(direction)

MergeSpec == MergeInit /\ [][MergeNext]_vars

\* What the rank item can hold at start: nothing, an empty text, texts that are no
\* rank ("x", "-5", "0"), ranks, and a rank followed by other characters.
StoredRanks ==
    {NoItem, Item(<<>>), Item(<<"x">>), Item(<<"-", "5">>), Item(<<"0">>),
     Item(<<"3">>), Item(<<"1", "2">>), Item(<<"5", "x">>)}

\* The candidates of a call: NaN, 0, a negative number and the ranks up to MaxRank.
CandidateRanks == {NaN} \cup {Number(n) : n \in -1..MaxRank}

RankInit ==
    /\ LoadSavedGame(MergeGames[1])
    /\ isGameOver = FALSE
    /\ previousState = <<>>
    /\ undoHistory = <<>>
    /\ canUndo = FALSE
    /\ isUndoingRef = FALSE
    /\ generatedPowerUpLevels = {}
    /\ scoreHasBeenSaved = FALSE
    /\ localPendingScore = <<>>
    /\ isCheckingScore = FALSE
    /\ isSavingScore = FALSE
    /\ maxDiscoveredRank \in StoredRanks
    /\ pendingCheck = <<>>
    /\ savedGame = [gameFinalized |-> FALSE, canUndoAfterGameOver |-> FALSE]
    /\ moves = 0
    /\ undoPowerUpsGenerated = 0
    /\ grantedLevels = <<>>
    /\ slowMoMoves = -1
    /\ last = Start

\* A call of updateMaxDiscoveredRank.
UpdateMaxDiscoveredRank(candidateRank) ==
    /\ maxDiscoveredRank' = updateMaxDiscoveredRank(maxDiscoveredRank, candidateRank)
    /\ last' = [op |-> "updateRank", candidateRank |-> candidateRank]
    /\ UNCHANGED <<grid, nextId, score, isGameOver, previousState, undoHistory, canUndo,
                   isUndoingRef, generatedPowerUpLevels, highestTileReached, powerUpState,
                   scoreHasBeenSaved, localPendingScore, isCheckingScore, isSavingScore,
                   pendingCheck, savedGame, powerUpSeq, moves, undoPowerUpsGenerated,
                   grantedLevels, slowMoMoves>>

\* A call of loadMaxDiscoveredRank.
LoadMaxDiscoveredRank ==
    /\ maxDiscoveredRank' = loadMaxDiscoveredRank(maxDiscoveredRank).item
    /\ last' = [op |-> "loadRank",
                returned |-> loadMaxDiscoveredRank(maxDiscoveredRank).returned]
    /\ UNCHANGED <<grid, nextId, score, isGameOver, previousState, undoHistory, canUndo,
                   isUndoingRef, generatedPowerUpLevels, highestTileReached, powerUpState,
                   scoreHasBeenSaved, localPendingScore, isCheckingScore, isSavingScore,
                   pendingCheck, savedGame, powerUpSeq, moves, undoPowerUpsGenerated,
                   grantedLevels, slowMoMoves>>

RankNext ==
    \/ \E candidateRank \in CandidateRanks : UpdateMaxDiscoveredRank(candidateRank)
    \/ LoadMaxDiscoveredRank

RankSpec == RankInit /\ [][RankNext]_vars

SlowMoGames == <<
    [levels |-> << <<0, 0, 0, 0>>, <<0, 1, 0, 0>>, <<0, 0, 0, 0>>, <<0, 0, 0, 9>> >>,
     frozen |-> NoFrozen, powerUps |-> <<"slowmo">>, slowMotionTurns |-> 0,
     extraUndos |-> 0, score |-> 1000],
    [levels |-> << <<2, 0, 0, 0>>, <<0, 0, 0, 0>>, <<0, 0, 3, 0>>, <<0, 9, 0, 0>> >>,
     frozen |-> NoFrozen, powerUps |-> <<"slowmo">>, slowMotionTurns |-> 0,
     extraUndos |-> 0, score |-> 1000]
>>

SlowMoInit ==
    /\ \E i \in 1..Len(SlowMoGames) : LoadSavedGame(SlowMoGames[i])
    /\ isGameOver = FALSE
    /\ previousState = <<>>
    /\ undoHistory = <<>>
    /\ canUndo = FALSE
    /\ isUndoingRef = FALSE
    /\ generatedPowerUpLevels = {}
    /\ scoreHasBeenSaved = FALSE
    /\ localPendingScore = <<>>
    /\ isCheckingScore = FALSE
    /\ isSavingScore = FALSE
    /\ maxDiscoveredRank = NoItem
    /\ pendingCheck = <<>>
    /\ savedGame = [gameFinalized |-> FALSE, canUndoAfterGameOver |-> FALSE]
    /\ moves = 0
    /\ undoPowerUpsGenerated = 0
    /\ grantedLevels = <<>>
    /\ slowMoMoves = -1
    /\ last = Start

SlowMoNext ==
    \/ \E direction \in Directions :
          HandleMoveWithin(direction, slowMoMoves >= 0 /\ slowMoMoves < MaxSlowMoMoves)
    \/ \E powerUpId \in 1..(powerUpSeq - 1) : HandleUsePowerUp(powerUpId)

SlowMoSpec == SlowMoInit /\ [][SlowMoNext]_vars

-----------------------------------------------------------------------------
(* Properties of the move resolution *)

\* A step of handleMove that got past the input lock.
MoveStep == last'.op = "move" /\ ~last'.blocked

FrozenOnBoard(g, frozenTiles) ==
    {t \in TilesOf(g) : isTileFrozen(t.id, frozenTiles)}

\* The cell next to (row, col) towards the leading edge of a move, or <<>> at the edge.
Ahead(row, col, direction) ==
    IF row + DRow(direction) \in Cells /\ col + DCol(direction) \in Cells
    THEN <<row + DRow(direction), col + DCol(direction)>>
    ELSE <<>>

\* C1: in every move, a tile with a positive freeze count is in the same cell with the
\* same level after the resolution as before it, and no merge of the move has it as its
\* surviving (target) or consumed (moving) tile.
C1_FrozenTilesStay ==
    [][MoveStep =>
          \A row \in Cells, col \in Cells :
              (IsTile(grid[row][col])
               /\ isTileFrozen(grid[row][col].id, powerUpState.frozenTiles)) =>
                  /\ grid'[row][col].id = grid[row][col].id
                  /\ grid'[row][col].level = grid[row][col].level
                  /\ grid'[row][col].isJoker = grid[row][col].isJoker
                  /\ grid'[row][col].row = row /\ grid'[row][col].col = col
                  /\ \A i \in 1..Len(last'.events) :
                        /\ last'.events[i].target.id # grid[row][col].id
                        /\ last'.events[i].moving.id # grid[row][col].id]_vars

\* A move slid and merged tiles while a frozen tile stayed put with the cell ahead of it
\* empty, and a tile of its level stopped right behind it.
C1_Witness ==
    /\ last.op = "move" /\ ~last.blocked /\ last.moved /\ last.merged
    /\ \E row \in Cells, col \in Cells :
          /\ IsTile(grid[row][col])
          /\ isTileFrozen(grid[row][col].id, last.frozenTiles)
          /\ Ahead(row, col, last.direction) # <<>>
          /\ LET behindRow == row - DRow(last.direction)
                 behindCol == col - DCol(last.direction)
             IN  /\ behindRow \in Cells /\ behindCol \in Cells
                 /\ IsTile(grid[behindRow][behindCol])
                 /\ grid[behindRow][behindCol].level = grid[row][col].level
                 /\ ~isTileFrozen(grid[behindRow][behindCol].id, last.frozenTiles)

\* C2: every merge of a move between a Joker and a non-Joker of rank k leaves one
\* non-Joker tile of rank k + 1 in the target cell, whichever of the two was moving; no
\* merge is between two Jokers; and on the board a move starts from, a Joker and a
\* non-frozen neighbour of rank k are accepted for merging in both roles, with result
\* rank k + 1, while two Jokers are not.
C2_JokerLaw ==
    /\ (last.op = "move" /\ ~last.blocked) =>
          \A i \in 1..Len(last.events) :
              LET e == last.events[i]
              IN  /\ ~(e.target.isJoker /\ e.moving.isJoker)
                  /\ (e.target.isJoker /\ ~e.moving.isJoker) =>
                         e.level = e.moving.level + 1 /\ ~e.isJoker
                  /\ (e.moving.isJoker /\ ~e.target.isJoker) =>
                         e.level = e.target.level + 1 /\ ~e.isJoker
                  /\ grid[e.row][e.col].level = e.level
                  /\ grid[e.row][e.col].isJoker = e.isJoker
                  /\ grid[e.row][e.col].id = e.target.id
    /\ \A t1 \in TilesOf(ClearFlags(grid)), t2 \in TilesOf(ClearFlags(grid)) :
          /\ (t1.isJoker /\ t2.isJoker) => ~canMerge(t1, t2, powerUpState.frozenTiles)
          /\ (t1.isJoker /\ ~t2.isJoker
              /\ ~isTileFrozen(t1.id, powerUpState.frozenTiles)
              /\ ~isTileFrozen(t2.id, powerUpState.frozenTiles)) =>
                 /\ canMerge(t1, t2, powerUpState.frozenTiles)
                 /\ canMerge(t2, t1, powerUpState.frozenTiles)
                 /\ getMergeResult(t1, t2) = [level |-> t2.level + 1, isJoker |-> FALSE]
                 /\ getMergeResult(t2, t1) = [level |-> t2.level + 1, isJoker |-> FALSE]

\* A move merged a Joker with a ranked tile and left two Jokers side by side.
C2_Witness ==
    /\ last.op = "move" /\ ~last.blocked /\ last.moved
    /\ \E i \in 1..Len(last.events) :
          last.events[i].target.isJoker # last.events[i].moving.isJoker
    /\ \E row \in Cells, col \in 0..2 :
          /\ grid[row][col].isJoker /\ grid[row][col + 1].isJoker
          /\ last.direction \in {"left", "right"}

RECURSIVE SumOfPowers(_)
SumOfPowers(events) ==
    IF events = <<>> THEN 0 ELSE 2 ^ Head(events).level + SumOfPowers(Tail(events))

\* C3: in every successful move each merge scores 2^(result level), the score after the
\* move is the score before it plus the sum of these over the move's merges, and the
\* board holds, before the spawn, as many tiles as before the move less the merges.
C3_MergeConservation ==
    [][(MoveStep /\ last'.moved) =>
          /\ \A i \in 1..Len(last'.events) :
                last'.events[i].scoreDelta = 2 ^ last'.events[i].level
          /\ score' = score + SumOfPowers(last'.events)
          /\ last'.tilesResolved = TileCount(grid) - Len(last'.events)
          /\ TileCount(grid') = TileCount(grid) - Len(last'.events)
                                + (IF last'.spawned THEN 1 ELSE 0)]_vars

\* A successful move merged into a tile of rank 3 or more and a tile was spawned.
C3_Witness ==
    /\ last.op = "move" /\ ~last.blocked /\ last.moved /\ last.spawned
    /\ \E i \in 1..Len(last.events) : last.events[i].level >= 3
    /\ last.tilesResolved < last.tilesBefore

\* C4: a move in which nothing slides or merges leaves which tile (id, level, Joker
\* flag) is in which cell, the score, the tile-id counter, the history, the baseline
\* undo flag, the frozen counters, the slow-motion counter and the inventory unchanged,
\* spawns nothing, and the same move on the grid it leaves again moves nothing.
C4_DeniedMoveFrame ==
    [][(MoveStep /\ ~last'.moved) =>
          /\ \A row \in Cells, col \in Cells :
                /\ grid'[row][col].id = grid[row][col].id
                /\ grid'[row][col].level = grid[row][col].level
                /\ grid'[row][col].isJoker = grid[row][col].isJoker
          /\ score' = score
          /\ nextId' = nextId
          /\ undoHistory' = undoHistory
          /\ previousState' = previousState
          /\ canUndo' = canUndo
          /\ powerUpState'.frozenTiles = powerUpState.frozenTiles
          /\ powerUpState'.slowMotionTurns = powerUpState.slowMotionTurns
          /\ powerUpState'.powerUps = powerUpState.powerUps
          /\ ~last'.spawned
          /\ ~ResolveMove(grid', last'.direction, powerUpState'.frozenTiles).moved]_vars

\* A move was denied on a board that holds tiles, after an earlier successful move.
C4_Witness ==
    /\ last.op = "move" /\ ~last.blocked /\ ~last.moved
    /\ TileCount(grid) >= 2
    /\ Len(undoHistory) >= 1

-----------------------------------------------------------------------------
(* Properties of the game-over check *)

\* Equal non-Joker levels, or exactly one Joker, and neither tile frozen.
MergeCompatible(t1, t2, frozenTiles) ==
    /\ ~isTileFrozen(t1.id, frozenTiles) /\ ~isTileFrozen(t2.id, frozenTiles)
    /\ \/ t1.isJoker /\ ~t2.isJoker
       \/ t2.isJoker /\ ~t1.isJoker
       \/ ~t1.isJoker /\ ~t2.isJoker /\ t1.level = t2.level

\* No empty cell and no merge-compatible pair of 4-neighbours.
NoMovePossible(g, frozenTiles) ==
    /\ \A row \in Cells, col \in Cells : IsTile(g[row][col])
    /\ \A row \in Cells, col \in Cells :
          /\ col < 3 => ~MergeCompatible(g[row][col], g[row][col + 1], frozenTiles)
          /\ row < 3 => ~MergeCompatible(g[row][col], g[row + 1][col], frozenTiles)

\* C5: on every grid and frozen map of a session, the grid right after a move included,
\* canMakeAnyMove and canMove are false exactly when the grid has no empty cell and no
\* merge-compatible pair of unfrozen 4-neighbours, and so is the game-over check a move
\* makes on its final grid.
C5_MoveCheckExact ==
    /\ canMakeAnyMove(grid, powerUpState.frozenTiles)
           <=> ~NoMovePossible(grid, powerUpState.frozenTiles)
    /\ canMove(grid, powerUpState.frozenTiles)
           <=> ~NoMovePossible(grid, powerUpState.frozenTiles)
    /\ (last.op = "move" /\ ~last.blocked /\ last.moved) =>
           (last.gameOver <=> NoMovePossible(grid, last.frozenTiles))

\* C6: after a successful move that leaves a board with no possible move, the session
\* is game-over only if no tile on the board is frozen and slow motion is not running.
C6_RecoveryBeforeGameOver ==
    (/\ last.op = "move" /\ ~last.blocked /\ last.moved
     /\ NoMovePossible(grid, powerUpState.frozenTiles)
     /\ isGameOver) =>
        /\ FrozenOnBoard(grid, powerUpState.frozenTiles) = {}
        /\ powerUpState.slowMotionTurns = 0

-----------------------------------------------------------------------------
(* Properties of the undo history *)

\* C7: the undo history never holds more than 1 + (Undo power-ups generated so far)
\* snapshots.
C7_HistoryBound == Len(undoHistory) <= 1 + undoPowerUpsGenerated

\* A step of handleUndo that restored a snapshot.
UndoStep == last'.op = "undo" /\ last'.performed

\* The snapshot pushed last among those the session still holds.
NewestSnapshot ==
    IF Len(undoHistory) > 0 THEN undoHistory[Len(undoHistory)] ELSE previousState[1]

\* C8: every undo leaves the grid, the score and the tile-id counter of the most
\* recently pushed snapshot, and takes that snapshot out of the history.
C8_UndoRestoresNewest ==
    [][UndoStep =>
          /\ grid' = NewestSnapshot.grid
          /\ score' = NewestSnapshot.score
          /\ nextId' = NewestSnapshot.nextId
          /\ \A i \in 1..Len(undoHistory') : undoHistory'[i] # NewestSnapshot]_vars

\* C9: an undo leaves the inventory as it was right before it.
C9_UndoKeepsInventory ==
    [][UndoStep => powerUpState'.powerUps = powerUpState.powerUps]_vars

\* C10: every undo leaves the frozen-tile map, the slow-motion counter and the generated
\* set of the snapshot it restored.
C10_UndoRestoresBoardPowerState ==
    [][UndoStep =>
          /\ powerUpState'.frozenTiles = last'.restored.powerUpState.frozenTiles
          /\ powerUpState'.slowMotionTurns = last'.restored.powerUpState.slowMotionTurns
          /\ generatedPowerUpLevels' = last'.restored.generatedPowerUpLevels]_vars

-----------------------------------------------------------------------------
(* Properties of the power-up economy *)

\* C11: every undo leaves the highest-ever-rank tracker (highestTileReached) at the
\* value it had before the undo, also when the restored grid's highest level is lower.
C11_UndoKeepsHighestTile ==
    [][UndoStep => highestTileReached' = highestTileReached]_vars

\* An undo restored a grid whose highest level is below the tracker.
C11_Witness ==
    /\ last.op = "undo" /\ last.performed
    /\ getHighestTileLevel(grid) < highestTileReached

\* C12: over a whole session no two grants are for the same rank value: the highest
\* levels at which power-ups were granted are pairwise distinct, undos included.
C12_OneGrantPerRank ==
    \A i \in 1..Len(grantedLevels), j \in 1..Len(grantedLevels) :
        i # j => grantedLevels[i] # grantedLevels[j]

\* After an undo took the rank out of the generated set again, a move re-reached a rank
\* a power-up was granted for, with generation enabled, and granted nothing.
C12_Witness ==
    /\ last.op = "move" /\ ~last.blocked /\ last.moved /\ last.merged
    /\ last.granted = "none"
    /\ ~isUndoingRef
    /\ Len(powerUpState.powerUps) < MaxPowerUps
    /\ \E i \in 1..Len(grantedLevels) : grantedLevels[i] = getHighestTileLevel(grid)
    /\ getHighestTileLevel(grid) \notin generatedPowerUpLevels

-----------------------------------------------------------------------------
(* Properties of the selection session *)

\* A click on a tile while a selection is armed.
PickStep == last'.op = "pick"

\* The tile the click of a pick step is on.
PickedTile == grid[last'.row][last'.col]

\* C13: when a Freeze selection completes on a tile that canSafelyFreezeTile reports
\* unsafe, no tile is frozen, the selection is back to idle with the input lock
\* released, and the inventory still holds the Freeze power-up.
C13_UnsafeFreezeRefused ==
    [][(/\ PickStep
        /\ powerUpState.selectingPowerUp.type = "freeze"
        /\ powerUpState.selectingPowerUp.picked = <<>>
        /\ ~canSafelyFreezeTile(grid, PickedTile.id, powerUpState.frozenTiles,
                                powerUpState.slowMotionTurns)) =>
          /\ powerUpState'.frozenTiles = powerUpState.frozenTiles
          /\ powerUpState'.selectingPowerUp = NoSelection
          /\ ~powerUpState'.inputLocked
          /\ powerUpState'.powerUps = powerUpState.powerUps]_vars

\* The remaining freeze turns of a tile, 0 when it is not in the map.
FreezeCount(frozenTiles, tileId) ==
    IF tileId \in DOMAIN frozenTiles THEN frozenTiles[tileId] ELSE 0

\* C14: when a Freeze selection completes on a tile that is safe to freeze, the tile's
\* freeze counter grows by 3 (from n to n + 3 when it was already frozen), the Freeze
\* power-up leaves the inventory and the selection is back to idle.
C14_FreezeAddsThree ==
    [][(/\ PickStep
        /\ powerUpState.selectingPowerUp.type = "freeze"
        /\ powerUpState.selectingPowerUp.picked = <<>>
        /\ canSafelyFreezeTile(grid, PickedTile.id, powerUpState.frozenTiles,
                               powerUpState.slowMotionTurns)) =>
          /\ FreezeCount(powerUpState'.frozenTiles, PickedTile.id)
                 = FreezeCount(powerUpState.frozenTiles, PickedTile.id) + FreezeTurns
          /\ powerUpState'.powerUps =
                 removePowerUp(powerUpState.powerUps, powerUpState.selectingPowerUp.powerUpId)
          /\ Len(powerUpState'.powerUps) = Len(powerUpState.powerUps) - 1
          /\ powerUpState'.selectingPowerUp = NoSelection
          /\ ~powerUpState'.inputLocked]_vars

\* C15: while a selection is armed it holds fewer picked cells than it requires.
C15_ArmedBelowRequired ==
    IsSelecting =>
        Len(powerUpState.selectingPowerUp.picked) < powerUpState.selectingPowerUp.required

\* The session state: every variable but the observer of the last handler.
session == <<grid, nextId, score, isGameOver, previousState, undoHistory, canUndo,
             isUndoingRef, generatedPowerUpLevels, highestTileReached, powerUpState,
             scoreHasBeenSaved, localPendingScore, isCheckingScore, pendingCheck,
             savedGame, powerUpSeq, moves, undoPowerUpsGenerated, grantedLevels,
             slowMoMoves, isSavingScore, maxDiscoveredRank>>

\* C16: while a selection is armed, a move request and an undo request each leave
\* the whole session state unchanged.
C16_ArmedBlocksMoveAndUndo ==
    [][(IsSelecting /\ last'.op \in {"move", "undo"}) => UNCHANGED session]_vars

\* A move request arrived while a selection was armed, in a direction in which the
\* board would have moved, with an undo on offer as well.
C16_Witness ==
    /\ IsSelecting
    /\ last.op = "move"
    /\ last.blocked
    /\ ResolveMove(grid, last.direction, powerUpState.frozenTiles).moved
    /\ canUndo

\* C17: a cancel, after any number of picks, returns the selection to idle and
\* releases the input lock, and leaves the grid, the score, the inventory, the
\* frozen tiles, the slow-motion counter, the extra-undo credits and the undo
\* history as they were.
C17_CancelFrame ==
    [][last'.op = "cancel" =>
          /\ powerUpState'.selectingPowerUp = NoSelection
          /\ ~powerUpState'.inputLocked
          /\ powerUpState'.powerUps = powerUpState.powerUps
          /\ powerUpState'.frozenTiles = powerUpState.frozenTiles
          /\ powerUpState'.slowMotionTurns = powerUpState.slowMotionTurns
          /\ powerUpState'.extraUndos = powerUpState.extraUndos
          /\ UNCHANGED <<grid, score, previousState, undoHistory>>]_vars

\* A selection was cancelled after a pick, with a snapshot in the undo history.
C17_Witness ==
    /\ last.op = "cancel"
    /\ last.picked >= 1
    /\ Len(powerUpState.powerUps) >= 1
    /\ Len(undoHistory) >= 1

\* The inventory without the power-up that owns the armed selection.
InventoryLessOwner ==
    SelectSeq(powerUpState.powerUps,
              LAMBDA p : p.id # powerUpState.selectingPowerUp.powerUpId)

\* C18: activating Freeze, Swap or Delete leaves the inventory and the board
\* unchanged; while the selection is armed the inventory changes exactly in the
\* step that applies the completed selection, which removes the owning power-up
\* and no other.
C18_ConsumedOnApplication ==
    [][/\ (last'.op = "use" /\ last'.type \in {"freeze", "swap", "delete"}) =>
              /\ powerUpState'.powerUps = powerUpState.powerUps
              /\ grid' = grid
       /\ IsSelecting =>
              IF PickStep /\ last'.applied
              THEN /\ powerUpState'.powerUps = InventoryLessOwner
                   /\ Len(powerUpState'.powerUps) = Len(powerUpState.powerUps) - 1
              ELSE powerUpState'.powerUps = powerUpState.powerUps]_vars

\* A completed selection was applied and spent its power-up; another power-up
\* is still held.
C18_Witness ==
    /\ last.op = "pick"
    /\ last.applied
    /\ ~IsSelecting
    /\ Len(powerUpState.powerUps) >= 1

\* A successful move.
SuccessfulMove == last'.op = "move" /\ ~last'.blocked /\ last'.moved

\* C19: activating SlowMo sets the slow-motion counter to 5; every successful move
\* made while the counter is positive spawns no tile and takes 1 off the counter;
\* and with no undo and no other SlowMo since the activation, the first 5
\* successful moves after it spawn nothing and the moves from the 6th on spawn.
C19_SlowMoFiveMoves ==
    [][/\ (last'.op = "use" /\ last'.type = "slowmo") =>
              powerUpState'.slowMotionTurns = 5
       /\ (SuccessfulMove /\ powerUpState.slowMotionTurns > 0) =>
              /\ ~last'.spawned
              /\ TileCount(grid') = last'.tilesResolved
              /\ powerUpState'.slowMotionTurns = powerUpState.slowMotionTurns - 1
       /\ (SuccessfulMove /\ slowMoMoves >= 0) =>
              /\ last'.spawned <=> slowMoMoves >= 5
              /\ TileCount(grid') = last'.tilesResolved + (IF slowMoMoves >= 5 THEN 1 ELSE 0)
              /\ powerUpState.slowMotionTurns = Max(0, 5 - slowMoMoves)]_vars

\* The 6th successful move after a SlowMo activation was made and spawned a tile.
C19_Witness ==
    /\ last.op = "move"
    /\ last.moved
    /\ slowMoMoves = 6
    /\ last.spawned
    /\ powerUpState.slowMotionTurns = 0

\* An undo request would be carried out: the button or key is live and handleUndo
\* passes its guards with a state to restore.
UndoPermitted ==
    /\ UndoInputEnabled
    /\ ~powerUpState.inputLocked
    /\ normalUndoAllowed \/ extraUndoAvailable
    /\ hasAnyUndoState

\* C20: once a move has ended the game, and as long as the score has not been
\* finalized, an undo is permitted, whether the qualification check is still
\* pending, has answered that the score qualifies or that it does not, or has failed.
C20_UndoAfterGameOver ==
    (isGameOver /\ ~savedGame.gameFinalized) => UndoPermitted

\* C21: an undo carried out while the baseline undo flag is armed and extra-undo
\* credits are positive spends exactly one credit and leaves the baseline flag armed.
C21_ExtraUndoFirst ==
    [][(UndoStep /\ canUndo /\ powerUpState.extraUndos > 0) =>
          /\ last'.usingExtraUndo
          /\ powerUpState'.extraUndos = powerUpState.extraUndos - 1
          /\ canUndo']_vars

\* An undo spent an extra-undo credit and the baseline flag is still armed.
C21_Witness ==
    /\ last.op = "undo"
    /\ last.performed
    /\ last.usingExtraUndo
    /\ canUndo
    /\ previousState # <<>>

\* C22: when the leaderboard read behind the qualification check fails, the result
\* acted on is "does not qualify": no pending leaderboard score is set.
C22_FailedReadDoesNotQualify ==
    [][(last'.op = "check" /\ last'.readFailed) =>
          /\ last'.outcome = "does not qualify"
          /\ localPendingScore' = <<>>]_vars

SomeDirectionMoves(g, frozenTiles) ==
    \E direction \in Directions : ResolveMove(g, direction, frozenTiles).moved

\* C24: whenever a successful move marks the session game-over, the grid it leaves
\* with the freeze counters it leaves admits no successful move in any direction.
C24_GameOverIsDeadlock ==
    [][(SuccessfulMove /\ isGameOver') =>
          ~SomeDirectionMoves(grid', powerUpState'.frozenTiles)]_vars

\* C25: on every grid and frozen-tile map of a session, when the move-possibility
\* check (canMakeAnyMove, canMove) returns true, some direction resolves with
\* moved = true.
C25_CheckTrueMeansMove ==
    /\ canMakeAnyMove(grid, powerUpState.frozenTiles) =>
           SomeDirectionMoves(grid, powerUpState.frozenTiles)
    /\ canMove(grid, powerUpState.frozenTiles) =>
           SomeDirectionMoves(grid, powerUpState.frozenTiles)

\* C26: no undo ever increases the score.
C26_UndoNeverRaisesScore ==
    [][UndoStep => score' <= score]_vars

\* The move that leads to the next state raised the highest level above the tracker,
\* to a level that has generated no power-up, with a free slot in the inventory.
GrantDue ==
    /\ getHighestTileLevel(grid') > highestTileReached
    /\ getHighestTileLevel(grid') \notin generatedPowerUpLevels
    /\ Len(powerUpState.powerUps) < MaxPowerUps

\* C27: a successful move grants exactly one power-up when it raises the highest
\* level ever reached, that level has generated none yet and the inventory holds
\* fewer than 4, also when it is the first action after an undo; otherwise it
\* grants none.
C27_GrantExactlyWhenDue ==
    [][SuccessfulMove =>
          IF GrantDue
          THEN /\ last'.granted # "none"
               /\ Len(powerUpState'.powerUps) = Len(powerUpState.powerUps) + 1
          ELSE /\ last'.granted = "none"
               /\ powerUpState'.powerUps = powerUpState.powerUps]_vars

\* C28: a tile is never frozen at the moment it is spawned: the id a move gives to
\* the tile it spawns has no entry in the frozen-tile map the move leaves, nor in
\* the one it started from.
C28_SpawnedTileNotFrozen ==
    [][(SuccessfulMove /\ last'.spawned) =>
          /\ nextId \notin DOMAIN powerUpState'.frozenTiles
          /\ nextId \notin DOMAIN powerUpState.frozenTiles]_vars

\* C29: when a game-over has been undone before its qualification check settled,
\* the late result sets no pending leaderboard score in the resumed game and does
\* not mark the score as saved, which would make later undos unavailable.
C29_LateCheckChangesNothing ==
    [][(last'.op = "check" /\ ~isGameOver) =>
          /\ localPendingScore' = <<>>
          /\ ~scoreHasBeenSaved']_vars

\* C30: when a move ends the game and starts the qualification check, the score
\* passed to the check is the session score after that move, the points of its
\* merges included.
C30_CheckedScoreIsFinalScore ==
    [][(SuccessfulMove /\ isGameOver' /\ ~isCheckingScore) =>
          pendingCheck' = <<score'>>]_vars

\* C31: once the score of a finished game has been finalized, by a successful
\* submission or by a skip, no undo request changes the grid, the score or the
\* game-over flag.
C31_NoUndoAfterFinalized ==
    [][((savedGame.gameFinalized \/ scoreHasBeenSaved) /\ last'.op = "undo") =>
          UNCHANGED <<grid, score, isGameOver>>]_vars

\* An undo was requested and refused on a finalized game that holds an extra-undo
\* credit and a snapshot to go back to.
C31_Witness ==
    /\ last.op = "undo"
    /\ ~last.performed
    /\ savedGame.gameFinalized
    /\ isGameOver
    /\ powerUpState.extraUndos > 0
    /\ Len(undoHistory) > 0

\* The cell (row, col) is one the armed selection must reject: it holds no tile, it is
\* already in the picked list, or the selection is a Swap and its tile is frozen.
RejectedPick(row, col) ==
    \/ ~IsTile(grid[row][col])
    \/ \E i \in 1..Len(powerUpState.selectingPowerUp.picked) :
          powerUpState.selectingPowerUp.picked[i] = <<row, col>>
    \/ /\ powerUpState.selectingPowerUp.type = "swap"
       /\ isTileFrozen(grid[row][col].id, powerUpState.frozenTiles)

\* C32: while a selection is armed, a pick on an empty cell, on a cell already in the
\* picked list, or (for Swap) on a frozen tile leaves the picked list, the grid and the
\* inventory unchanged.
C32_RejectedPickChangesNothing ==
    [][(IsSelecting /\ last'.op = "pick" /\ RejectedPick(last'.row, last'.col)) =>
          /\ grid' = grid
          /\ powerUpState'.selectingPowerUp = powerUpState.selectingPowerUp
          /\ powerUpState'.powerUps = powerUpState.powerUps]_vars

\* A Swap selection with one tile picked has just been asked for the same cell again.
C32_Witness ==
    /\ last.op = "pick"
    /\ IsSelecting
    /\ powerUpState.selectingPowerUp.type = "swap"
    /\ powerUpState.selectingPowerUp.picked = <<(<<last.row, last.col>>)>>
    /\ ~last.picked

\* A pick that was refused on a cell without a tile.
C32_EmptyCellPicked ==
    last.op = "pick" /\ IsSelecting /\ ~IsTile(grid[last.row][last.col])

\* A Swap pick that was refused on a frozen tile.
C32_FrozenSwapPicked ==
    /\ last.op = "pick"
    /\ IsSelecting
    /\ powerUpState.selectingPowerUp.type = "swap"
    /\ IsTile(grid[last.row][last.col])
    /\ isTileFrozen(grid[last.row][last.col].id, powerUpState.frozenTiles)

\* The frozen-tile map after a successful move as the countdown rule states it: every
\* entry one lower, the entries that reach 0 gone.
CountedDown(frozenTiles, after) ==
    /\ DOMAIN after = {id \in DOMAIN frozenTiles : frozenTiles[id] - 1 > 0}
    /\ \A id \in DOMAIN after : after[id] = frozenTiles[id] - 1

\* Every tile that is frozen before the step is the same tile in the same cell after it.
FrozenTilesStay ==
    \A row \in Cells, col \in Cells :
        (IsTile(grid[row][col]) /\ isTileFrozen(grid[row][col].id, powerUpState.frozenTiles))
            => /\ grid'[row][col].id = grid[row][col].id
               /\ grid'[row][col].level = grid[row][col].level

\* In a session that freezes one tile before its first move: the map holds that tile
\* with 3 less the number of successful moves, and nothing from the third move on.
FrozenForThreeMoves(frozenTiles, moved) ==
    (moved > 0 \/ frozenTiles # NoFrozen) =>
        IF moved < FreezeTurns
        THEN \E id \in DOMAIN frozenTiles :
                 /\ DOMAIN frozenTiles = {id}
                 /\ frozenTiles[id] = FreezeTurns - moved
        ELSE frozenTiles = NoFrozen

\* C33: every entry of the frozen-tile map is strictly positive; a successful move
\* lowers every entry by 1 and removes the entries that reach 0, a move with moved =
\* false lowers nothing; a tile frozen once for 3 turns stays in its cell for the next 3
\* successful moves and is no longer frozen at the 4th.
C33_FrozenCountdown ==
    [][/\ \A id \in DOMAIN powerUpState'.frozenTiles : powerUpState'.frozenTiles[id] > 0
       /\ SuccessfulMove =>
              /\ CountedDown(powerUpState.frozenTiles, powerUpState'.frozenTiles)
              /\ FrozenTilesStay
       /\ (last'.op = "move" /\ ~SuccessfulMove) =>
              powerUpState'.frozenTiles = powerUpState.frozenTiles
       /\ FrozenForThreeMoves(powerUpState'.frozenTiles, moves')]_vars

\* The fourth successful move after the freeze is done, and both tiles the session
\* started with, one of which was the frozen one, have left their cells.
C33_Witness ==
    /\ last.op = "move"
    /\ moves = 4
    /\ powerUpState.frozenTiles = NoFrozen
    /\ \E row \in Cells, col \in Cells :
          grid[row][col].id = 1 /\ grid[row][col].level = 1 /\ <<row, col>> # <<1, 1>>
    /\ \E row \in Cells, col \in Cells :
          grid[row][col].id = 2 /\ grid[row][col].level = 9 /\ <<row, col>> # <<3, 3>>

\* The third successful move after the freeze: the frozen tile of level 1 is still in
\* its cell and its entry is about to expire.
C33_ThirdMoveFrozen ==
    /\ last.op = "move"
    /\ moves = 3
    /\ last.frozenTiles = (1 :> 1)
    /\ grid[1][1].id = 1

\* The frozen-tile map with the candidate tile frozen in addition.
WithCandidateFrozen(frozenTiles, tileId) ==
    [i \in DOMAIN frozenTiles \cup {tileId} |->
        IF i = tileId THEN FreezeTurns ELSE frozenTiles[i]]

\* What the freeze-safety rule asks for the tile: safe when a move remains with the tile
\* frozen too; otherwise unsafe exactly when slow motion runs or the board is full.
FreezeVerdictAsStated(g, tileId, frozenTiles, slowMotionTurns) ==
    IF SomeDirectionMoves(g, WithCandidateFrozen(frozenTiles, tileId)) THEN FALSE
    ELSE slowMotionTurns > 0 \/ Len(getEmptyCells(g)) = 0

\* C34: for every tile of the board as the candidate, wouldFreezingCauseDeadlock
\* returns false when a move remains possible with the candidate frozen in addition;
\* when none remains it returns true if slow motion is active or the board has no empty
\* cell, and false otherwise.
C34_FreezeVerdict ==
    \A tile \in TilesOf(grid) :
        wouldFreezingCauseDeadlock(grid, tile.id, powerUpState.frozenTiles,
                                   powerUpState.slowMotionTurns)
            = FreezeVerdictAsStated(grid, tile.id, powerUpState.frozenTiles,
                                    powerUpState.slowMotionTurns)

\* The tiles of one merge: the one that stays and the one that moved into it.
MergeParties(event) == {event.target.id, event.moving.id}

\* No tile id occurs in two merges of the resolution.
NoTileMergesTwice(events) ==
    \A i \in 1..Len(events), j \in 1..Len(events) :
        i < j => MergeParties(events[i]) \cap MergeParties(events[j]) = {}

\* The k-th cell of a line, counted from the edge the tiles move to.
LineCell(direction, line, k) ==
    CASE direction = "left" -> <<line, k>>
      [] direction = "right" -> <<line, 3 - k>>
      [] direction = "up" -> <<k, line>>
      [] direction = "down" -> <<3 - k, line>>

\* The line holds four unfrozen tiles of one level, none of them a Joker.
FourEqual(direction, line) ==
    \A k \in Cells :
        LET cell == LineCell(direction, line, k)
            tile == grid[cell[1]][cell[2]]
            first == LineCell(direction, line, 0)
        IN  /\ IsTile(tile)
            /\ ~tile.isJoker
            /\ ~isTileFrozen(tile.id, powerUpState.frozenTiles)
            /\ tile.level = grid[first[1]][first[2]].level

\* After the step the line holds two tiles of the next level at the edge, and behind
\* them nothing but, possibly, the tile that was just spawned.
TwoOfNextRank(direction, line) ==
    LET first == LineCell(direction, line, 0)
        level == grid[first[1]][first[2]].level
    IN  \A k \in Cells :
            LET cell == LineCell(direction, line, k)
                tile == grid'[cell[1]][cell[2]]
            IN  IF k < 2
                THEN IsTile(tile) /\ tile.level = level + 1 /\ ~tile.isJoker
                ELSE ~IsTile(tile) \/ tile.id = nextId

\* C35: in one move resolution no tile takes part in more than one merge, and a line
\* of four equal unfrozen tiles yields two tiles of the next rank.
C35_OneMergePerTile ==
    [][SuccessfulMove =>
          /\ NoTileMergesTwice(last'.events)
          /\ \A line \in Cells :
                FourEqual(last'.direction, line) => TwoOfNextRank(last'.direction, line)]_vars

\* A move has just merged a row of four tiles of one level into two.
C35_Witness ==
    /\ last.op = "move"
    /\ ~last.blocked
    /\ last.moved
    /\ last.direction \in {"left", "right"}
    /\ \E i \in 1..Len(last.events), j \in 1..Len(last.events) :
          /\ i < j
          /\ last.events[i].row = last.events[j].row
          /\ \A k \in {i, j} :
                /\ ~last.events[k].target.isJoker
                /\ ~last.events[k].moving.isJoker
                /\ last.events[k].target.level = last.events[i].target.level
                /\ last.events[k].moving.level = last.events[i].target.level

\* C36: every tile stored at grid[r][c] has row = r and col = c, after any sequence of
\* moves, spawns, Swap, Delete and undo.
C36_TileKnowsItsCell ==
    \A r \in Cells, c \in Cells :
        IsTile(grid[r][c]) => grid[r][c].row = r /\ grid[r][c].col = c

\* A Swap has just exchanged the level-1 tile of (0,0) and the level-9 tile of (2,2).
C36_Witness ==
    /\ last.op = "pick"
    /\ last.applied
    /\ moves = 0
    /\ grid[2][2].id = 1
    /\ grid[0][0].id = 2

\* An undo has just restored a grid, and a move before it had slid or spawned tiles.
C36_UndoRestored ==
    last.op = "undo" /\ last.performed /\ TileCount(grid) > 0

\* C37: the tiles of the grid have pairwise distinct ids, and every tile id is below
\* nextId, after any sequence of moves, spawns, Swap, Delete and undo.
C37_IdsDistinctBelowNextId ==
    /\ \A a \in Cells \X Cells, b \in Cells \X Cells :
          (a # b /\ IsTile(grid[a[1]][a[2]]) /\ IsTile(grid[b[1]][b[2]]))
              => grid[a[1]][a[2]].id # grid[b[1]][b[2]].id
    /\ \A tile \in TilesOf(grid) : tile.id < nextId

\* An undo after two moves has just put back an earlier grid with its nextId, and the
\* newest tile of that grid holds the id right below it.
C37_Witness ==
    /\ last.op = "undo"
    /\ last.performed
    /\ moves = 2
    /\ nextId = last.restored.nextId
    /\ \E tile \in TilesOf(grid) : tile.id = nextId - 1

\* The rank a load of the item gives.
StoredRank(item) == loadMaxDiscoveredRank(item).returned

\* The candidate is an integer >= 1.
ValidRank(candidateRank) == ~candidateRank.nan /\ candidateRank.value >= 1

\* C38: over any sequence of updateMaxDiscoveredRank calls the stored rank never
\* decreases; a valid candidate above the stored rank replaces it, a valid candidate at
\* or below it and an invalid candidate (NaN, 0, negative) leave it unchanged; and
\* loadMaxDiscoveredRank always returns a value >= 1.
C38_RankOnlyRises ==
    [][/\ StoredRank(maxDiscoveredRank') >= StoredRank(maxDiscoveredRank)
       /\ StoredRank(maxDiscoveredRank') >= 1
       /\ last'.op = "updateRank" =>
              IF ValidRank(last'.candidateRank)
                 /\ last'.candidateRank.value > StoredRank(maxDiscoveredRank)
              THEN StoredRank(maxDiscoveredRank') = last'.candidateRank.value
              ELSE StoredRank(maxDiscoveredRank') = StoredRank(maxDiscoveredRank)
       /\ last'.op = "loadRank" =>
              /\ last'.returned >= 1
              /\ last'.returned = StoredRank(maxDiscoveredRank')]_vars

\* A valid candidate below the stored rank has just been offered to an item that an
\* earlier call had raised to 7.
C38_Witness ==
    /\ last.op = "updateRank"
    /\ last.candidateRank = Number(4)
    /\ maxDiscoveredRank = Item(<<"7">>)

====
